---- MODULE Spec2Model ----
(***************************************************************************)
(* A model of the datx entity graph: the collection (identity registry),   *)
(* the models (entities) with their plain and reference fields, the        *)
(* reference buckets, the patch tracker, cloning and raw snapshots.        *)
(*                                                                         *)
(* Objects are handles (1..MaxModels): a handle is the identity of a model *)
(* object, which survives its removal from the collection.  Every JS value *)
(* that a field can carry is a tagged record (k = "null", "undefined",     *)
(* "plain", "id", "ref", "model", "list", "raw"), so that an entity, a     *)
(* {type,id} placeholder and a bare identifier are different values.       *)
(***************************************************************************)
EXTENDS Integers, Sequences, FiniteSets, TLC

\* ------------------------------------------------------------------ bounds
MaxModels == 3
MaxId == 2
MaxSteps == 4

\* --------------------------------------------------------------- constants
NoId == 0
NoHandle == 0

Types == {"event", "image"}
ServerIds == 1..MaxId
AutoIds == (0 - MaxModels)..(0 - 1)
AllIds == AutoIds \cup ServerIds
Handles == 1..MaxModels
Registry == "R"
OtherRegistry == "S"
NoCollection == "none"

\* ------------------------------------------------------------------ errors
NoErr == ""
NOT_A_CLONE == "The given model is not a clone."
MODEL_EXISTS == "Model already exists, please update it instead."
REF_SINGLE == "The reference can't be an array of values."
REF_ARRAY == "The reference must be an array of values."
NO_REFS == "You should save this value as a reference."
NEEDS_COLLECTION == "The model needs to be in a collection to be referenceable"
ID_READ_ONLY == "Model ID can't be updated directly."
TYPE_READ_ONLY == "Model type can't be changed after initialization."
NETWORK_NOT_AVAILABLE == "Network not available"
NO_CACHE == "No cache for this request"
INVALID_CACHING_STRATEGY == "Invalid caching strategy"
SERVER_ERROR == "response error"

\* ------------------------------------------------------------------ values
NullV == [k |-> "null"]
UndefV == [k |-> "undefined"]
PlainV(x) == [k |-> "plain", v |-> x]
IdV(i) == [k |-> "id", id |-> i]
RefV(t, i) == [k |-> "ref", type |-> t, id |-> i]
ModelV(h) == [k |-> "model", h |-> h]
ListV(s) == [k |-> "list", items |-> s]
RawV(meta, attrs) == [k |-> "raw", meta |-> meta, attrs |-> attrs]

EmptyObj == [x \in {} |-> NullV]

\* Array.isArray / mobx isArrayLike
isArrayLike(value) == value.k = "list"

\* value instanceof PureModel
isModel(value) == value.k = "model"

\* JS truthiness of a value (`!collection && initialVal`, `if (originalId)`)
Truthy(value) ==
  CASE value.k = "null" -> FALSE
    [] value.k = "undefined" -> FALSE
    [] value.k = "id" -> value.id # 0
    [] OTHER -> TRUE

\* mapItems of datx-utils: a list is mapped item-wise, null stays null
mapItems(value, fn(_)) ==
  IF isArrayLike(value)
    THEN ListV([i \in 1..Len(value.items) |-> fn(value.items[i])])
    ELSE IF value.k \in {"null", "undefined"} THEN NullV ELSE fn(value)

RECURSIVE isModelReference(_)
isModelReference(value) ==
  IF isArrayLike(value)
    THEN \A i \in 1..Len(value.items) : isModelReference(value.items[i])
    ELSE value.k = "ref"

\* ------------------------------------------------------------------ schema
PlainDef == [referenceDef |-> FALSE]
TO_ONE == "toOne"
TO_MANY == "toMany"
TO_ONE_OR_MANY == "toOneOrMany"
RefDef(refType, model) ==
  [referenceDef |-> TRUE, type |-> refType, model |-> model]

\* getReferenceDef: the definition an @Attribute({toOne|toOneOrMany|toMany})
\* yields; a to-many definition carries the referenceProperty, if one is given
getReferenceDef(toOne, toOneOrMany, toMany, referenceProperty) ==
  IF toOne # "" THEN RefDef(TO_ONE, toOne)
  ELSE IF toOneOrMany # "" THEN RefDef(TO_ONE_OR_MANY, toOneOrMany)
  ELSE IF toMany # ""
    THEN IF referenceProperty = "" THEN RefDef(TO_MANY, toMany)
         ELSE [referenceDef |-> TRUE, type |-> TO_MANY, model |-> toMany,
               property |-> referenceProperty]
  ELSE PlainDef

\* fieldDef.referenceDef.property
IsBackRef(fieldDef) == fieldDef.referenceDef /\ "property" \in DOMAIN fieldDef

\* The classes of the test setup: Event {title, images: toMany(image)} and
\* Image {name, event: toOne(event)}
ClassFields(t) ==
  IF t = "event"
    THEN [title |-> getReferenceDef("", "", "", ""),
          images |-> getReferenceDef("", "", "image", "")]
    ELSE [name |-> getReferenceDef("", "", "", ""),
          event |-> getReferenceDef("event", "", "", "")]

\* Object.keys order of the field table: declared fields first, then dynamic ones
FieldOrder == <<"id", "type", "title", "name", "images", "event", "photos", "extra">>
FieldNames == {FieldOrder[i] : i \in 1..Len(FieldOrder)}

KeysOf(obj) == SelectSeq(FieldOrder, LAMBDA key : key \in DOMAIN obj)

\* ------------------------------------------------------------------- state
VARIABLES models, data, map, other, autoId, last, steps, cache, net, fetched,
          config, pending

vars == <<models, data, map, other, autoId, last, steps, cache, net, fetched,
          config, pending>>

NoModel == [k |-> "none"]
NoPatch == [count |-> 0, changed |-> {}]

\* The mutable world a handler works on; err is the exception in flight
World == [models |-> models, data |-> data, map |-> map, other |-> other,
          autoId |-> autoId,
          patches |-> <<>>, warned |-> FALSE, ret |-> NullV, err |-> NoErr]

Return(w, value) == IF w.err = NoErr THEN [w EXCEPT !.ret = value] ELSE w

Throw(w, msg) == IF w.err = NoErr THEN [w EXCEPT !.err = msg] ELSE w
Failed(w) == w.err # NoErr

Allocated(w) == {h \in Handles : w.models[h].k # "none"}
FreeHandles(w) == Handles \ Allocated(w)
NewHandle(w) == CHOOSE h \in FreeHandles(w) : \A g \in FreeHandles(w) : h <= g

\* ----------------------------------------------------------------- helpers
getMeta(w, h, key) == w.models[h].meta[key]
setMeta(w, h, key, value) == [w EXCEPT !.models[h].meta[key] = value]

getModelType(w, value) ==
  IF isModel(value) THEN getMeta(w, value.h, "type")
  ELSE IF isArrayLike(value) THEN "" \* an array has no type
  ELSE value.type

getModelId(w, h) == getMeta(w, h, "id")

getModelCollection(w, h) == getMeta(w, h, "collection")

getModelRef_identity(w, value) == value

\* getModelRef: the {id, type} of a model; a reference is returned as it is
getModelRef(w, value) ==
  IF isModel(value)
    THEN RefV(getModelType(w, value), getModelId(w, value.h))
    ELSE value

\* --------------------------------------------------------------- registry
\* PureCollection.findOne(type, id): the index lookup
findOne(w, type, id) == w.map[type][id]

\* collection.findOne(type, id) on the collection a model or a bucket points at;
\* other is the index of the second collection
findIn(w, coll, type, id) ==
  IF coll = Registry THEN findOne(w, type, id)
  ELSE IF coll = OtherRegistry THEN w.other[type][id]
  ELSE NoHandle

\* collection?.findOne(type, id) || fallback
findOr(w, coll, type, id, fallback) ==
  IF findIn(w, coll, type, id) = NoHandle
    THEN fallback
    ELSE ModelV(findIn(w, coll, type, id))

\* ------------------------------------------------------------ field reads
\* bucket.value: every stored {type,id} is looked up again on each read
BucketValue(w, bucket) ==
  mapItems(bucket.raw,
           LAMBDA ref : IF isModel(ref) THEN ref
                        ELSE findOr(w, bucket.collection, ref.type, ref.id, ref))

\* bucket.snapshot: the stored {type,id} pairs
BucketSnapshot(bucket) == bucket.raw

\* getRef(model, key)
getRef(w, h, key) == BucketValue(w, w.models[h].refs[key])

\* the handles of a set in the order of the collection
InOrder(hs) ==
  [i \in 1..Cardinality(hs) |->
     CHOOSE h \in hs : Cardinality({g \in hs : g <= h}) = i]

\* the forward field `key` of g, a model of the collection of h, reads h or a
\* list that holds h: its bucket keeps the {type, id} of h
HoldsModel(w, g, key, h) ==
  /\ key \in DOMAIN w.models[g].refs
  /\ LET raw == w.models[g].refs[key].raw
         ref == RefV(w.models[h].meta.type, w.models[h].meta.id)
     IN IF isArrayLike(raw)
          THEN \E i \in 1..Len(raw.items) : raw.items[i] = ref
          ELSE raw = ref

\* the models of the collection of h that hold h in the field the
\* back-reference names
BackModels(w, h, key) ==
  LET def == getMeta(w, h, "fields")[key]
  IN IF getModelCollection(w, h) = NoCollection THEN {}
     ELSE {g \in w.data : /\ getMeta(w, g, "type") = def.model
                          /\ HoldsModel(w, g, def.property, h)}

\* getBackRef(model, key)
getBackRef(w, h, key) ==
  LET found == InOrder(BackModels(w, h, key))
  IN ListV([i \in 1..Len(found) |-> ModelV(found[i])])

\* the key is a back-reference field of the model
IsBackRefKey(w, h, key) ==
  /\ key \in DOMAIN w.models[h].meta.fields
  /\ IsBackRef(w.models[h].meta.fields[key])
  /\ key \notin DOMAIN w.models[h].refs

\* model[key] for a field that has storage: a bucket or a tracked value
ReadStored(w, h, key) ==
  IF key \in DOMAIN w.models[h].refs THEN getRef(w, h, key)
  ELSE IF key \in DOMAIN w.models[h].data THEN w.models[h].data[key]
  ELSE UndefV

\* model[key]; the id and type fields of the schema are computed from the
\* meta, a back-reference from the collection
ReadField(w, h, key) ==
  IF key = "id" /\ key \in DOMAIN w.models[h].meta.fields
    THEN IdV(w.models[h].meta.id)
  ELSE IF key = "type" /\ key \in DOMAIN w.models[h].meta.fields
    THEN PlainV(w.models[h].meta.type)
  ELSE IF IsBackRefKey(w, h, key) THEN getBackRef(w, h, key)
  ELSE ReadStored(w, h, key)

\* what a dependent that reads every field of the model observes
ObservedState(w, h) ==
  [key \in (DOMAIN w.models[h].data) \cup (DOMAIN w.models[h].refs) |->
     ReadStored(w, h, key)]

\* a === b for the values a field can hold (a list or a placeholder is a fresh object)
Identical(a, b) ==
  /\ a.k = b.k
  /\ a.k \in {"null", "undefined", "plain", "id", "model"}
  /\ a = b

\* ----------------------------------------------------------- patch tracker
startAction(w, h) ==
  IF Failed(w) THEN w
  ELSE [w EXCEPT !.models[h].meta.patch.count = @ + 1]

updateAction(w, h, key, value) ==
  IF Failed(w) \/ Identical(ReadStored(w, h, key), value) THEN w
  ELSE [w EXCEPT !.models[h].meta.patch.changed = @ \cup {key}]

endAction(w, h) ==
  IF Failed(w) THEN w
  ELSE LET count == w.models[h].meta.patch.count - 1
           changed == w.models[h].meta.patch.changed
           w1 == [w EXCEPT !.models[h].meta.patch.count = count]
       IN IF count = 0
            THEN [w1 EXCEPT
                    !.models[h].meta.patch.changed = {},
                    !.patches = IF changed = {} THEN @
                                ELSE Append(@, [model |-> h, keys |-> changed,
                                                seen |-> ObservedState(w1, h)])]
            ELSE w1

updateSingleAction(w, h, key, value) ==
  endAction(updateAction(startAction(w, h), h, key, value), h)

\* ----------------------------------------------------------------- buckets
BucketError_none(refType, value) == NoErr

\* the arity a bucket enforces on the value it is given
BucketError(refType, value) ==
  IF refType = TO_ONE /\ isArrayLike(value) THEN REF_SINGLE
  ELSE IF refType = TO_MANY /\ ~isArrayLike(value) /\ value.k # "null" THEN REF_ARRAY
  ELSE NoErr

\* the {type,id} pairs a bucket keeps for a resolved value
BucketRaw(w, refType, value) ==
  IF refType = TO_MANY /\ value.k = "null" THEN ListV(<<>>)
  ELSE mapItems(value, LAMBDA item : getModelRef(w, item))

\* new Bucket(value, collection, ...)
NewBucket(w, refType, value, coll) ==
  [type |-> refType, raw |-> BucketRaw(w, refType, value), collection |-> coll]

\* updateRef(model, key, value): bucket.value = value
updateRef(w, h, key, value) ==
  IF Failed(w) THEN w
  ELSE LET bucket == w.models[h].refs[key]
       IN IF BucketError(bucket.type, value) # NoErr
            THEN Throw(w, BucketError(bucket.type, value))
            ELSE [w EXCEPT !.models[h].refs[key].raw =
                             BucketRaw(w, bucket.type, value)]

\* bucket.setCollection(collection)
setCollection(bucket, coll) == [bucket EXCEPT !.collection = coll]

updateModelCollection_metaOnly(w, h, coll) == setMeta(w, h, "collection", coll)

\* updateModelCollection(model, collection)
updateModelCollection(w, h, coll) ==
  LET w1 == startAction(setMeta(w, h, "collection", coll), h)
      w2 == [w1 EXCEPT !.models[h].refs =
               [key \in DOMAIN @ |-> setCollection(@[key], coll)]]
  IN endAction(w2, h)

\* ------------------------------------------------- reference resolution
\* the collection registers a model under (type, id)
insertModel(w, h) ==
  LET type == getMeta(w, h, "type")
      id == getModelId(w, h)
  IN IF Failed(w) THEN w
     ELSE IF findOne(w, type, id) # NoHandle THEN Throw(w, MODEL_EXISTS)
     ELSE Return(updateModelCollection(
                   [w EXCEPT !.data = @ \cup {h}, !.map[type][id] = h],
                   h, Registry),
                 ModelV(h))

\* collection.add(model): a model of the collection is returned as it is
addInstance(w, value) ==
  IF Failed(w) THEN w
  ELSE IF getModelCollection(w, value.h) = Registry
    THEN Return(w, value)
    ELSE insertModel(w, value.h)

RECURSIVE getRefItems(_, _, _, _, _, _, _)
RECURSIVE initFields(_, _, _, _)

\* getModelRefType: the schema declares static target types
getModelRefType(model, item, h, key, coll) == model

getRefItem_ownType(w, item, coll, fieldDef, h, key) ==
  IF Failed(w) THEN w
  ELSE IF item.k \in {"null", "undefined"} THEN Return(w, NullV)
  ELSE IF item.k = "model"
    THEN IF coll = NoCollection THEN Return(w, NullV) ELSE addInstance(w, item)
  ELSE IF item.k = "ref"
    THEN Return(w, findOr(w, coll, item.type, item.id, item))
  ELSE Return(w, findOr(w, coll,
                        getModelRefType(fieldDef.model, item, h, key, coll),
                        item.id,
                        RefV(getMeta(w, h, "type"), item.id)))

\* the callback getRefValue maps over the items of a value; the objects among
\* the items are models (the callers give no nested raw data)
getRefItem(w, item, coll, fieldDef, h, key) ==
  IF Failed(w) THEN w
  ELSE IF item.k \in {"null", "undefined"} THEN Return(w, NullV)
  ELSE IF item.k = "model"
    THEN IF coll = NoCollection THEN Return(w, NullV) ELSE addInstance(w, item)
  ELSE IF item.k = "ref"
    THEN Return(w, findOr(w, coll, item.type, item.id, item))
  ELSE Return(w, findOr(w, coll,
                        getModelRefType(fieldDef.model, item, h, key, coll),
                        item.id,
                        RefV(getModelRefType(fieldDef.model, item, h, key, coll),
                             item.id)))

getRefItems(w, items, acc, coll, fieldDef, h, key) ==
  IF Failed(w) THEN w
  ELSE IF items = <<>> THEN Return(w, ListV(acc))
  ELSE LET w1 == getRefItem(w, Head(items), coll, fieldDef, h, key)
       IN getRefItems(w1, Tail(items), Append(acc, w1.ret), coll, fieldDef, h, key)

\* getRefValue(value, collection, fieldDef, model, key)
getRefValue(w, value, coll, fieldDef, h, key) ==
  IF isArrayLike(value)
    THEN getRefItems(w, value.items, <<>>, coll, fieldDef, h, key)
    ELSE getRefItem(w, value, coll, fieldDef, h, key)

\* ------------------------------------------------------ model construction
NoDef == [referenceDef |-> FALSE, none |-> TRUE]

initModelRef_bucket(w, h, key, referenceDef, initialVal) ==
  IF Failed(w) THEN w
  ELSE
  LET fields == getMeta(w, h, "fields")
      fieldDef == IF key \in DOMAIN fields THEN fields[key] ELSE referenceDef
      coll == getModelCollection(w, h)
      w2 == IF initialVal.k \notin {"null", "undefined"}
              THEN getRefValue(w, initialVal, coll, fieldDef, h, key)
              ELSE Return(w, IF fieldDef.type = TO_MANY THEN ListV(<<>>) ELSE NullV)
      bucket == NewBucket(w2, fieldDef.type, w2.ret, coll)
  IN IF coll = NoCollection /\ Truthy(initialVal) THEN Throw(w, NEEDS_COLLECTION)
     ELSE IF Failed(w2) THEN w2
     ELSE IF BucketError(fieldDef.type, w2.ret) # NoErr
       THEN Throw(w2, BucketError(fieldDef.type, w2.ret))
     ELSE [w2 EXCEPT !.models[h].refs = (key :> bucket) @@ @]

\* initModelRef(model, key, referenceDef, initialVal): a back-reference gets a
\* computed accessor and no bucket, a forward reference gets a bucket
initModelRef(w, h, key, referenceDef, initialVal) ==
  IF Failed(w) THEN w
  ELSE
  LET fields == getMeta(w, h, "fields")
      fieldDef == IF key \in DOMAIN fields THEN fields[key] ELSE referenceDef
      coll == getModelCollection(w, h)
      w1 == IF referenceDef.referenceDef
              THEN setMeta(w, h, "fields", (key :> referenceDef) @@ fields)
              ELSE w
      w2 == IF initialVal.k \notin {"null", "undefined"}
              THEN getRefValue(w1, initialVal, coll, fieldDef, h, key)
              ELSE Return(w1, IF fieldDef.type = TO_MANY THEN ListV(<<>>) ELSE NullV)
      value == w2.ret
      bucket == NewBucket(w2, fieldDef.type, value, coll)
      w3 == updateSingleAction(w2, h, key, BucketValue(w2, bucket))
  IN IF coll = NoCollection /\ Truthy(initialVal) THEN Throw(w, NEEDS_COLLECTION)
     ELSE IF IsBackRef(fieldDef) THEN w1
     ELSE IF Failed(w2) THEN w2
     ELSE IF BucketError(fieldDef.type, value) # NoErr
       THEN Throw(w2, BucketError(fieldDef.type, value))
     ELSE [w3 EXCEPT !.models[h].refs = (key :> bucket) @@ @]

\* the setter initModelField installs for a plain field
setPlain(w, h, key, newValue) ==
  LET w1 == updateSingleAction(w, h, key, newValue)
  IN IF Failed(w1) THEN w1
     ELSE [w1 EXCEPT !.models[h].data = (key :> newValue) @@ @]

\* initModelField(model, key, value)
initModelField(w, h, key, value) ==
  IF Failed(w) THEN w
  ELSE LET fieldDef == getMeta(w, h, "fields")[key]
       IN IF key \in {"type", "id"} THEN w
          ELSE IF fieldDef.referenceDef
            THEN initModelRef(w, h, key, NoDef, value)
            ELSE setPlain([w EXCEPT !.models[h].data = (key :> UndefV) @@ @],
                          h, key, value)

\* the schema entry initModel gives a raw key that is not in the schema
NewFieldDef(w, value) ==
  IF \/ isModel(value)
     \/ /\ isArrayLike(value)
        /\ Len(value.items) > 0
        /\ (isModel(value.items[1]) \/ isModelReference(value.items[1]))
     \/ isModelReference(value)
    THEN RefDef(TO_ONE_OR_MANY, getModelType(w, value))
    ELSE PlainDef

initFields(w, h, keys, attrs) ==
  IF Failed(w) \/ keys = <<>> THEN w
  ELSE LET key == Head(keys)
           value == IF key \in DOMAIN attrs THEN attrs[key] ELSE UndefV
       IN initFields(initModelField(w, h, key, value), h, Tail(keys), attrs)

initModel_autoId(w, h, rawData, classType, coll) ==
  LET modelMeta == rawData.meta
      fields == [key \in DOMAIN rawData.attrs \ DOMAIN ClassFields(classType) |->
                   NewFieldDef(w, rawData.attrs[key])] @@ ClassFields(classType)
      instance ==
        [k |-> "entity", class |-> classType,
         meta |-> [collection |-> coll,
                   type |-> classType,
                   id |-> w.autoId[classType] - 1,
                   originalId |-> NoId,
                   fields |-> fields,
                   patch |-> NoPatch],
         data |-> EmptyObj, refs |-> EmptyObj]
      w1 == [w EXCEPT !.models[h] = instance,
                      !.autoId[classType] = @ - 1]
  IN initFields(w1, h, KeysOf(fields), rawData.attrs)

\* initModel(instance, rawData, collection)
initModel(w, h, rawData, classType, coll) ==
  LET modelMeta == rawData.meta
      classFields == ClassFields(classType)
      fields0 == (IF "fields" \in DOMAIN modelMeta THEN modelMeta.fields ELSE EmptyObj)
                   @@ classFields
      fields == [key \in DOMAIN rawData.attrs \ DOMAIN fields0 |->
                   NewFieldDef(w, rawData.attrs[key])] @@ fields0
      hasId == "id" \in DOMAIN rawData.attrs \/ "id" \in DOMAIN modelMeta
      instance ==
        [k |-> "entity", class |-> classType,
         meta |-> [collection |-> coll,
                   type |-> IF "type" \in DOMAIN rawData.attrs
                              THEN rawData.attrs.type.v
                            ELSE IF "type" \in DOMAIN modelMeta
                              THEN modelMeta.type ELSE classType,
                   id |-> IF "id" \in DOMAIN rawData.attrs THEN rawData.attrs.id.id
                          ELSE IF "id" \in DOMAIN modelMeta THEN modelMeta.id
                          ELSE w.autoId[classType] - 1,
                   originalId |-> IF "originalId" \in DOMAIN modelMeta
                                    THEN modelMeta.originalId ELSE NoId,
                   fields |-> fields,
                   patch |-> NoPatch],
         data |-> EmptyObj, refs |-> EmptyObj]
      w1 == [w EXCEPT !.models[h] = instance,
                      !.autoId[classType] = IF hasId THEN @ ELSE @ - 1]
  IN initFields(w1, h, KeysOf(fields), rawData.attrs)

\* ------------------------------------------------------------- collection
\* collection.add(data, type): data is raw data or a model instance
collectionAdd(w, value, type) ==
  IF Failed(w) THEN w
  ELSE IF isModel(value) THEN addInstance(w, value)
    ELSE LET h == NewHandle(w)
             w1 == insertModel(initModel(w, h, value, type, Registry), h)
         IN IF Failed(w1) THEN [w1 EXCEPT !.models[h] = NoModel] ELSE w1

\* add on the second collection: raw data becomes a model of it, a model that
\* is in no collection joins it
otherInsert(w, h) ==
  LET type == getMeta(w, h, "type")
      id == getModelId(w, h)
  IN IF Failed(w) THEN w
     ELSE IF w.other[type][id] # NoHandle THEN Throw(w, MODEL_EXISTS)
     ELSE Return(updateModelCollection([w EXCEPT !.other[type][id] = h],
                                       h, OtherRegistry),
                 ModelV(h))

otherAdd(w, value, type) ==
  IF Failed(w) THEN w
  ELSE IF isModel(value) THEN otherInsert(w, value.h)
    ELSE LET h == NewHandle(w)
             w1 == otherInsert(initModel(w, h, value, type, OtherRegistry), h)
         IN IF Failed(w1) THEN [w1 EXCEPT !.models[h] = NoModel] ELSE w1

\* new ModelClass(rawData): a model that is in no collection
newModel(w, rawData, type) ==
  LET h == NewHandle(w)
      w1 == initModel(w, h, rawData, type, NoCollection)
  IN IF Failed(w1) THEN [w1 EXCEPT !.models[h] = NoModel] ELSE Return(w1, ModelV(h))

\* collection.remove(model): the model leaves the index and loses its collection
collectionRemove(w, h) ==
  LET type == getMeta(w, h, "type")
      id == getModelId(w, h)
  IN updateModelCollection(
       [w EXCEPT !.data = @ \ {h}, !.map[type][id] = NoHandle],
       h, NoCollection)

RECURSIVE removeAll(_, _)
removeAll(w, hs) ==
  IF hs = {} THEN w
  ELSE LET h == CHOOSE x \in hs : TRUE
       IN removeAll(collectionRemove(w, h), hs \ {h})

\* collection.reset()
collectionReset(w) == removeAll(w, w.data)

\* updateModelReferences: every bucket of the collection's models that holds the
\* old identifier holds the new one
renameRef(ref, type, oldId, newId) ==
  IF ref.k = "ref" /\ ref.type = type /\ ref.id = oldId
    THEN RefV(type, newId) ELSE ref

updateModelReferences_none(w, type, oldId, newId) == w

updateModelReferences(w, type, oldId, newId) ==
  [w EXCEPT !.models =
     [g \in Handles |->
        IF g \in w.data
          THEN [@[g] EXCEPT !.refs =
                  [key \in DOMAIN @ |->
                     [@[key] EXCEPT !.raw =
                        mapItems(@, LAMBDA ref : renameRef(ref, type, oldId, newId))]]]
          ELSE @[g]]]

\* updateModelId(model, newId)
updateModelId(w, h, newId) ==
  LET coll == getModelCollection(w, h)
      oldId == getModelId(w, h)
      type == getMeta(w, h, "type")
      w1 == setMeta(w, h, "id", newId)
      w2 == IF coll = NoCollection THEN w1
            ELSE [w1 EXCEPT !.map[type][newId] = h, !.map[type][oldId] = NoHandle]
  IN updateModelReferences(w2, type, oldId, newId)

\* ------------------------------------------------------------ field writes
\* the setter initModelRef installs for a reference field
setRef(w, h, key, newValue) ==
  LET coll == getModelCollection(w, h)
      fieldDef == getMeta(w, h, "fields")[key]
      w1 == updateSingleAction(w, h, key, newValue)
      w2 == getRefValue(w1, newValue, coll, fieldDef, h, key)
  IN IF Failed(w) THEN w
     ELSE IF coll = NoCollection /\ Truthy(newValue) THEN Throw(w, NEEDS_COLLECTION)
     ELSE updateRef(w2, h, key, w2.ret)

\* the forward field of g without h, and with h
WithoutModel(w, g, key, h) ==
  LET value == getRef(w, g, key)
  IN IF isArrayLike(value)
       THEN ListV(SelectSeq(value.items, LAMBDA item : item # ModelV(h)))
       ELSE NullV

WithModel(w, g, key, h) ==
  LET value == getRef(w, g, key)
  IN IF isArrayLike(value) THEN ListV(Append(value.items, ModelV(h)))
     ELSE ModelV(h)

RECURSIVE delBackRefs(_, _, _, _)
delBackRefs(w, gs, key, h) ==
  IF Failed(w) \/ gs = <<>> THEN w
  ELSE delBackRefs(setRef(w, Head(gs), key, WithoutModel(w, Head(gs), key, h)),
                   Tail(gs), key, h)

RECURSIVE addBackRefs(_, _, _, _)
addBackRefs(w, gs, key, h) ==
  IF Failed(w) \/ gs = <<>> THEN w
  ELSE addBackRefs(setRef(w, Head(gs), key, WithModel(w, Head(gs), key, h)),
                   Tail(gs), key, h)

\* updateBackRef(model, key, value): the forward field of every model that
\* leaves the list loses the model, that of every model that joins it gets it
updateBackRef(w, h, key, value) ==
  LET def == getMeta(w, h, "fields")[key]
      oldModels == BackModels(w, h, key)
      newModels == IF isArrayLike(value)
                     THEN {value.items[i].h : i \in 1..Len(value.items)}
                     ELSE IF isModel(value) THEN {value.h} ELSE {}
      w1 == delBackRefs(w, InOrder(oldModels \ newModels), def.property, h)
  IN addBackRefs(w1, InOrder(newModels \ oldModels), def.property, h)

\* model[key] = value; a key that has no accessor (its initModelField has
\* failed) is an ordinary property of the object
setField(w, h, key, value) ==
  IF Failed(w) THEN w
  ELSE IF key = "type" /\ key \in DOMAIN getMeta(w, h, "fields")
    THEN Throw(w, TYPE_READ_ONLY)
  ELSE IF key = "id" /\ key \in DOMAIN getMeta(w, h, "fields")
    THEN Throw(w, ID_READ_ONLY)
  ELSE IF IsBackRefKey(w, h, key) THEN updateBackRef(w, h, key, value)
  ELSE IF key \in DOMAIN w.models[h].refs THEN setRef(w, h, key, value)
  ELSE IF key \in DOMAIN w.models[h].data THEN setPlain(w, h, key, value)
  ELSE [w EXCEPT !.models[h].data = (key :> value) @@ @]

\* the type of each item of a value, as a set (mapItems(value, getModelType))
ItemTypes(w, value) ==
  IF isArrayLike(value)
    THEN {getModelType(w, value.items[i]) : i \in 1..Len(value.items)}
    ELSE {getModelType(w, value)}

assignModel_noUpgrade(w, h, key, value) ==
  LET fields == getMeta(w, h, "fields")
      shouldBeReference ==
        \/ isArrayLike(value) /\ Len(value.items) > 0 /\ isModel(value.items[1])
        \/ isModel(value)
  IN IF Failed(w) THEN w
     ELSE IF key \in DOMAIN fields
       THEN IF shouldBeReference /\ ~fields[key].referenceDef
              THEN Throw(w, NO_REFS)
              ELSE setField(w, h, key, value)
       ELSE initModelField(setMeta(w, h, "fields", (key :> PlainDef) @@ fields),
                           h, key, value)

assignModel_unchecked(w, h, key, value) ==
  LET fields == getMeta(w, h, "fields")
  IN IF Failed(w) THEN w
     ELSE IF key \in DOMAIN fields
       THEN setField(w, h, key, value)
       ELSE initModelField(setMeta(w, h, "fields", (key :> PlainDef) @@ fields),
                           h, key, value)

\* assignModel(model, key, value)
assignModel(w, h, key, value) ==
  LET fields == getMeta(w, h, "fields")
      shouldBeReference ==
        \/ isArrayLike(value) /\ Len(value.items) > 0 /\ isModel(value.items[1])
        \/ isModel(value)
      newDef == IF shouldBeReference
                  THEN [referenceDef |-> TRUE, type |-> TO_ONE_OR_MANY, model |-> "",
                        models |-> ItemTypes(w, value)]
                  ELSE PlainDef
  IN IF Failed(w) THEN w
     ELSE IF key \in DOMAIN fields
       THEN IF shouldBeReference /\ ~fields[key].referenceDef
              THEN Throw(w, NO_REFS)
              ELSE setField(w, h, key, value)
       ELSE initModelField(setMeta(w, h, "fields", (key :> newDef) @@ fields),
                           h, key, value)

READ_ONLY_META_none == {}

READ_ONLY_META == {"fields", "id", "type"}

\* omitKeys(obj, keys)
omitKeys(obj, keys) == [key \in DOMAIN obj \ keys |-> obj[key]]

\* mergeMeta(model, meta)
mergeMeta(w, h, meta) ==
  [w EXCEPT !.models[h].meta = meta @@ @]

RECURSIVE assignKeys(_, _, _, _)
assignKeys(w, h, keys, dataObj) ==
  IF Failed(w) \/ keys = <<>> THEN w
  ELSE LET key == Head(keys)
           w1 == IF key \notin {"id", "type"}
                   THEN assignModel(w, h, key, dataObj.attrs[key])
                   ELSE w
       IN assignKeys(w1, h, Tail(keys), dataObj)

updateModel_unbatched(w, h, dataObj, keys) ==
  LET w1 == mergeMeta(w, h, omitKeys(dataObj.meta, READ_ONLY_META))
      w2 == assignKeys(w1, h, keys, dataObj)
  IN Return(w2, ModelV(h))

\* updateModel(model, data); keys is Object.keys(data) without the meta key
updateModel(w, h, dataObj, keys) ==
  LET w0 == startAction(w, h)
      w1 == mergeMeta(w0, h, omitKeys(dataObj.meta, READ_ONLY_META))
      w2 == assignKeys(w1, h, keys, dataObj)
  IN Return(endAction(w2, h), ModelV(h))

\* ---------------------------------------------------------------- snapshots
INTERNAL_META_all == {"patch", "patchListeners", "collection"}

\* the meta keys modelToJSON leaves out of a snapshot (a key that holds
\* undefined is not in the snapshot either)
INTERNAL_META == {"patch", "patchListeners", "collection", "originalId"}

modelToJSON_values(w, h) ==
  LET meta == w.models[h].meta
      fields == meta.fields
      metaKeys == {key \in DOMAIN meta \ INTERNAL_META :
                     key = "originalId" => meta[key] # NoId}
      rawMeta == [id |-> getModelId(w, h), type |-> getMeta(w, h, "type")]
                   @@ [key \in metaKeys |-> meta[key]]
  IN RawV(rawMeta, [key \in DOMAIN fields |-> ReadField(w, h, key)])

\* modelToJSON(model)
modelToJSON(w, h) ==
  LET meta == w.models[h].meta
      fields == meta.fields
      metaKeys == {key \in DOMAIN meta \ INTERNAL_META :
                     key = "originalId" => meta[key] # NoId}
      rawMeta == [id |-> getModelId(w, h), type |-> getMeta(w, h, "type")]
                   @@ [key \in metaKeys |-> meta[key]]
      bucketOf(key) == w.models[h].refs[key]
  IN RawV(rawMeta,
          [key \in DOMAIN fields |->
             IF fields[key].referenceDef
               THEN IF key \in DOMAIN w.models[h].refs
                      THEN BucketSnapshot(bucketOf(key)) ELSE NullV
               ELSE ReadField(w, h, key)])

cloneModel_noOriginal(w, h) ==
  LET rawData == modelToJSON(w, h)
      cloneData == RawV([key \in DOMAIN rawData.meta \ {"id"} |-> rawData.meta[key]],
                        rawData.attrs)
      coll == getModelCollection(w, h)
      g == NewHandle(w)
      w1 == Return(initModel([w EXCEPT !.warned = TRUE], g, cloneData,
                             w.models[h].class, NoCollection),
                   ModelV(g))
  IN IF coll # NoCollection
       THEN collectionAdd(w, cloneData, getMeta(w, h, "type"))
       ELSE IF Failed(w1) THEN [w1 EXCEPT !.models[g] = NoModel] ELSE w1

cloneModel_strict(w, h) ==
  LET rawData == modelToJSON(w, h)
      meta == [key \in (DOMAIN rawData.meta \ {"id"}) \cup {"originalId"} |->
                 IF key = "originalId" THEN rawData.meta.id ELSE rawData.meta[key]]
  IN IF getModelCollection(w, h) # NoCollection
       THEN collectionAdd(w, RawV(meta, rawData.attrs), getMeta(w, h, "type"))
       ELSE Throw([w EXCEPT !.warned = TRUE], NEEDS_COLLECTION)

\* cloneModel(model)
cloneModel(w, h) ==
  LET rawData == modelToJSON(w, h)
      meta == [key \in (DOMAIN rawData.meta \ {"id"}) \cup {"originalId"} |->
                 IF key = "originalId" THEN rawData.meta.id ELSE rawData.meta[key]]
      cloneData == RawV(meta, rawData.attrs)
      coll == getModelCollection(w, h)
      g == NewHandle(w)
      w1 == Return(initModel([w EXCEPT !.warned = TRUE], g, cloneData,
                             w.models[h].class, NoCollection),
                   ModelV(g))
  IN IF coll # NoCollection
       THEN collectionAdd(w, cloneData, getMeta(w, h, "type"))
       ELSE IF Failed(w1) THEN [w1 EXCEPT !.models[g] = NoModel] ELSE w1

\* getOriginalModel(model)
getOriginalModel(w, h) ==
  LET coll == getModelCollection(w, h)
      originalId == getMeta(w, h, "originalId")
  IN IF originalId # 0
       THEN IF coll = NoCollection THEN Throw(w, NEEDS_COLLECTION)
            ELSE Return(w, findOr(w, coll, getMeta(w, h, "type"), originalId, UndefV))
       ELSE Throw(w, NOT_A_CLONE)

\* ---------------------------------------------------------------- JSON:API
\* flattenModel(record): the raw form of a JSON:API record
flattenModel(obj) == RawV([id |-> obj.id, type |-> obj.type], obj.attrs)

addRecord_replace(w, obj) ==
  LET h == NewHandle(w)
      w1 == initModel(w, h, flattenModel(obj), obj.type, Registry)
  IN IF Failed(w) \/ FreeHandles(w) = {} THEN w
     ELSE Return([w1 EXCEPT !.data = @ \cup {h}, !.map[obj.type][obj.id] = h],
                 ModelV(h))

addRecord_add(w, obj) ==
  IF Failed(w) THEN w ELSE collectionAdd(w, flattenModel(obj), obj.type)

\* __addRecord(obj)
addRecord(w, obj) ==
  LET record == findOne(w, obj.type, obj.id)
      flattened == flattenModel(obj)
  IN IF Failed(w) THEN w
     ELSE IF record # NoHandle
       THEN updateModel(w, record, flattened, KeysOf(flattened.attrs))
       ELSE collectionAdd(w, flattened, obj.type)

\* an empty list is written as any other list
updateRelationship_written(w, obj, ref) ==
  LET record == findOne(w, obj.type, obj.id)
      items == obj.relationships[ref]
      resolved == mapItems(items,
                    LAMBDA def : findOr(w, Registry, def.type, def.id, IdV(def.id)))
  IN IF Failed(w) THEN w
     ELSE IF Truthy(items) /\ record # NoHandle
               /\ ref \in (DOMAIN w.models[record].data) \cup (DOMAIN w.models[record].refs)
       THEN setField(w, record, ref, resolved)
       ELSE w

\* the relationship `ref` of obj, applied to record
updateRelationship(w, obj, ref) ==
  LET record == findOne(w, obj.type, obj.id)
      items == obj.relationships[ref]
      resolved == mapItems(items,
                    LAMBDA def : findOr(w, Registry, def.type, def.id, IdV(def.id)))
      itemType == IF isArrayLike(items) THEN items.items[1].type ELSE items.type
  IN IF Failed(w) THEN w
     ELSE IF isArrayLike(items) /\ Len(items.items) < 1 THEN w
     ELSE IF Truthy(items) /\ record # NoHandle
       THEN IF ref \in (DOMAIN w.models[record].data) \cup (DOMAIN w.models[record].refs)
              THEN setField(w, record, ref, resolved)
              ELSE initModelRef(w, record, ref, RefDef(TO_ONE_OR_MANY, itemType),
                                resolved)
       ELSE w

RECURSIVE updateRelationshipKeys(_, _, _)
updateRelationshipKeys(w, obj, refs) ==
  IF Failed(w) \/ refs = <<>> THEN w
  ELSE updateRelationshipKeys(updateRelationship(w, obj, Head(refs)), obj, Tail(refs))

\* __updateRelationships(obj)
updateRelationships(w, obj) ==
  updateRelationshipKeys(w, obj, KeysOf(obj.relationships))

RECURSIVE addRecords(_, _)
addRecords(w, records) ==
  IF Failed(w) \/ records = <<>> THEN w
  ELSE addRecords(addRecord(w, Head(records)), Tail(records))

RECURSIVE updateRelationshipsOf(_, _)
updateRelationshipsOf(w, records) ==
  IF Failed(w) \/ records = <<>> THEN w
  ELSE updateRelationshipsOf(updateRelationships(w, Head(records)), Tail(records))

\* __iterateEntries(body, fn): the included records first, then the data records
iterateEntries(body) == body.included \o body.data

\* every record is added and its relationships applied before the next record
RECURSIVE sync_interleaved(_, _)
sync_interleaved(w, records) ==
  IF Failed(w) \/ records = <<>> THEN w
  ELSE sync_interleaved(updateRelationships(addRecord(w, Head(records)),
                                            Head(records)),
                        Tail(records))

sync_eachRecord(w, body) == sync_interleaved(w, iterateEntries(body))

\* sync(body)
sync(w, body) ==
  LET w1 == addRecords(w, iterateEntries(body))
  IN Return(updateRelationshipsOf(w1, iterateEntries(body)), w1.ret)

\* ------------------------------------------------------------ cached fetch
\* the caching strategies of a call
NETWORK_ONLY == "network-only"
NETWORK_FIRST == "network-first"
CACHE_FIRST == "cache-first"
Strategies == {NETWORK_ONLY, NETWORK_FIRST, CACHE_FIRST}
CACHE_ONLY == "cache-only"
STALE_WHILE_REVALIDATE == "stale-while-revalidate"
STALE_AND_UPDATE == "stale-and-update"
Revalidating == {STALE_WHILE_REVALIDATE, STALE_AND_UPDATE}
AllStrategies == Strategies \cup {CACHE_ONLY} \cup Revalidating

\* a value of config.cache or of the cachingStrategy option that names none of
\* the strategies, and the absence of the option
INVALID_STRATEGY == "invalid-strategy"
NoOption == ""

\* the requests a caller makes: getOne(type, id), keyed by type and id
Fingerprints == {<<type, 1>> : type \in Types}

\* a cache entry keeps the payload of a successful response and the
\* collection the response was made for; fresh tells whether its age is
\* within the maximal age
NoEntry == [k |-> "none"]
CacheEntry(payload) ==
  [k |-> "entry", payload |-> payload, fresh |-> TRUE, owner |-> Registry]

\* the transport: the server answers with its payload, or it is not reached,
\* or it answers with an error
NetworkOK == "ok"
NetworkDown == "offline"
NetworkError == "error"

aged_ignored(entry, maxAge0) == entry

\* the entry as a call sees it: with a maxAge of 0 every entry is stale
aged(entry, maxAge0) ==
  IF entry # NoEntry /\ maxAge0 THEN [entry EXCEPT !.fresh = FALSE] ELSE entry

\* the strategy of a call: the cachingStrategy option, or else config.cache
effectiveStrategy(option, configured) ==
  IF option # NoOption THEN option ELSE configured

isValid_any(strategy) == TRUE

isValid(strategy) == strategy \in AllStrategies

isCached_anyAge(entry) == entry # NoEntry

\* the entry a call can be served: one whose age is within the maximal age
isCached(entry) == entry # NoEntry /\ entry.fresh

usesNetwork_always(strategy, entry) == TRUE
usesNetwork_unlessFresh(strategy, entry) == entry = NoEntry \/ ~entry.fresh

\* the strategy table: which calls wait for the network; under cache-first an
\* entry older than the maximal age counts for none
usesNetwork(strategy, entry) ==
  \/ strategy \in {NETWORK_ONLY, NETWORK_FIRST}
  \/ strategy = CACHE_FIRST /\ ~isCached(entry)
  \/ strategy \in Revalidating /\ entry = NoEntry

revalidates_never(strategy, entry) == FALSE
revalidates_whenStale(strategy, entry) ==
  strategy \in Revalidating /\ entry # NoEntry /\ ~entry.fresh

\* the calls that are served the entry at once and ask the network behind it
revalidates(strategy, entry) ==
  strategy \in Revalidating /\ entry # NoEntry

updatesResponse_never(strategy) == FALSE

\* the strategies whose background call writes into the response it follows
updatesResponse(strategy) == strategy \in Revalidating

fallsBack_always(strategy) == TRUE
fallsBack_never(strategy) == FALSE

\* the strategies that serve the cache entry when the network fails
fallsBack(strategy) == strategy = NETWORK_FIRST

isNetworkFailure_any(outcome) == outcome # NetworkOK

\* the request did not reach the server
isNetworkFailure(outcome) == outcome = NetworkDown

saveCache_any(outcome) == outcome # NetworkDown

\* a response is written to the cache when it carries no error
saveCache(outcome) == outcome = NetworkOK

\* the outcome of a call: whether a request was issued, the error or the
\* payload of the response, and whether the payload is stored
resolveFetch(strategy, entry, outcome, payload) ==
  IF ~isValid(strategy)
    THEN [requested |-> FALSE, err |-> INVALID_CACHING_STRATEGY,
          payload |-> NullV, store |-> FALSE]
  ELSE IF ~usesNetwork(strategy, entry)
    THEN IF entry = NoEntry
           THEN [requested |-> FALSE, err |-> NO_CACHE, payload |-> NullV,
                 store |-> FALSE]
           ELSE [requested |-> FALSE, err |-> NoErr, payload |-> entry.payload,
                 store |-> FALSE]
  ELSE IF outcome = NetworkOK
    THEN [requested |-> TRUE, err |-> NoErr, payload |-> payload,
          store |-> saveCache(outcome)]
  ELSE IF ~isNetworkFailure(outcome)
    THEN [requested |-> TRUE, err |-> SERVER_ERROR, payload |-> NullV,
          store |-> saveCache(outcome)]
  ELSE IF fallsBack(strategy) /\ entry # NoEntry
    THEN [requested |-> TRUE, err |-> NoErr, payload |-> entry.payload,
          store |-> FALSE]
  ELSE [requested |-> TRUE, err |-> NETWORK_NOT_AVAILABLE, payload |-> NullV,
        store |-> FALSE]

clearCacheByType_none(entries, type) == entries

\* clearCacheByType(type): the entries of the requests of a type are dropped
clearCacheByType(entries, type) ==
  [url \in Fingerprints |-> IF url[1] = type THEN NoEntry ELSE entries[url]]

\* clearAllCache(): every entry is dropped
clearAllCache(entries) == [url \in Fingerprints |-> NoEntry]

\* ------------------------------------------------------------------ inputs
\* the models of the collection that have the given type
ModelsOf(type) == {g \in data : models[g].meta.type = type}

\* the items a caller can put in a reference: a bare identifier, a {type,id}
\* placeholder, or a model of the collection
RefItems(type) ==
  {IdV(i) : i \in ServerIds}
    \cup {RefV(type, i) : i \in ServerIds}
    \cup {ModelV(h) : h \in ModelsOf(type)}

\* lists of at most two items: a model with a placeholder, in both orders
RefLists(type) ==
  {ListV(<<>>)}
    \cup {ListV(<<x>>) : x \in RefItems(type) \ {RefV(type, i) : i \in ServerIds}}
    \cup UNION {{ListV(<<ModelV(h), RefV(type, i)>>),
                  ListV(<<RefV(type, i), ModelV(h)>>)} :
                   h \in ModelsOf(type), i \in ServerIds}

\* the values a caller writes to a reference field of the given arity
RefValues(refType, type) ==
  IF refType = TO_MANY
    THEN RefLists(type) \cup {NullV, IdV(MaxId)}
    ELSE RefItems(type) \cup {NullV, ListV(<<IdV(MaxId)>>)}

\* the reference and the plain field of a class
RefKey(type) == CHOOSE key \in DOMAIN ClassFields(type) : ClassFields(type)[key].referenceDef
PlainKey(type) == CHOOSE key \in DOMAIN ClassFields(type) : ~ClassFields(type)[key].referenceDef

\* the raw data of a new model of a class: an optional id and a plain field
NewRaw(type) ==
  {RawV(meta, attrs) :
     meta \in {EmptyObj} \cup {[id |-> i] : i \in ServerIds},
     attrs \in {(PlainKey(type) :> PlainV("a"))}}

\* the raw data of an event whose field table has a back-reference: photos
\* are the images whose event field holds the event
BackRefKey == "photos"

BackRefRaw ==
  {RawV([fields |-> (BackRefKey :> getReferenceDef("", "", "image", "event"))] @@ meta,
        (PlainKey("event") :> PlainV("a"))) :
     meta \in {EmptyObj} \cup {[id |-> i] : i \in ServerIds}}

\* the raw data of a new model that carries its id and type as fields
NewKeyedRaw(type) ==
  {RawV(EmptyObj, ("id" :> IdV(i)) @@ ("type" :> PlainV(type))
                    @@ (PlainKey(type) :> PlainV("a"))) : i \in ServerIds}

\* the raw data of a new model whose reference field names a model by its id
LinkedRaw(type) ==
  LET def == ClassFields(type)[RefKey(type)]
  IN {RawV(meta, (RefKey(type) :> IF def.type = TO_MANY THEN ListV(<<IdV(i)>>)
                                                       ELSE IdV(i))) :
        meta \in {EmptyObj, [id |-> 1]}, i \in {1, MaxId}}

\* the raw data of a new model of the second collection
OtherRaw(type) ==
  {RawV([id |-> i], (PlainKey(type) :> PlainV("a"))) : i \in {1, MaxId}}

\* the raw data of a model made outside a collection: the reference field is
\* absent, null, or holds a value; identifiers are numbers, 0 among them
DetachedRaw(type) ==
  LET def == ClassFields(type)[RefKey(type)]
  IN {RawV(EmptyObj, (PlainKey(type) :> PlainV("a")) @@ ref) :
        ref \in {EmptyObj, (RefKey(type) :> NullV)} \cup
                {(RefKey(type) :> value) :
                   value \in IF def.type = TO_MANY
                               THEN {ListV(<<>>), ListV(<<IdV(1)>>)}
                               ELSE {IdV(0), IdV(1), RefV(def.model, 1)}}}

\* the values written to a reference field of a model that is in no collection
DetachedValues(type) ==
  LET def == ClassFields(type)[RefKey(type)]
  IN {NullV, IdV(0), IdV(1), RefV(def.model, 1), ListV(<<>>), ListV(<<IdV(1)>>)}
       \cup {ModelV(g) : g \in ModelsOf(def.model)}

\* the body the server answers a request with: one record whose attribute is
\* at one of two versions
Payloads(url) ==
  {[data |-> <<[type |-> url[1], id |-> url[2],
                attrs |-> (PlainKey(url[1]) :> PlainV(v)),
                relationships |-> EmptyObj]>>,
    included |-> <<>>] : v \in {"a", "b"}}

\* the class that is not the given one
OtherType(type) == CHOOSE t \in Types : t # type

\* the data of an update that carries an id and a type, as fields or in the meta
IdentityData(h) ==
  LET type == models[h].class
  IN {RawV(meta, ident @@ (PlainKey(type) :> PlainV("b"))) :
        meta \in {EmptyObj, [id |-> 1, type |-> OtherType(type)]},
        ident \in {EmptyObj,
                   ("id" :> IdV(1)) @@ ("type" :> PlainV(OtherType(type)))}}

\* the data of an update: an optional id in the meta, the plain field and the
\* reference field
UpdateData(h) ==
  LET type == models[h].class
      def == ClassFields(type)[RefKey(type)]
  IN {RawV(meta, plain @@ ref) :
        meta \in {EmptyObj, [id |-> MaxId]},
        plain \in {EmptyObj, (PlainKey(type) :> PlainV("b"))},
        ref \in {EmptyObj} \cup
                {(RefKey(type) :> IF def.type = TO_MANY
                                    THEN ListV(<<IdV(MaxId)>>) ELSE IdV(MaxId))}}

\* the JSON:API records of a response: one record with an attribute
SyncRecords ==
  {[type |-> type, id |-> i, attrs |-> (PlainKey(type) :> PlainV("b")),
    relationships |-> EmptyObj] : type \in Types, i \in ServerIds}

\* the relationship keys of a record: the reference field of its class and a
\* name the class does not declare
LinkKeys(type) == {RefKey(type), "extra"}

\* the data of a relationship that names one record: the {type, id} itself or
\* a list of it, as the field allows
LinkData(type, key, target) ==
  IF key = RefKey(type)
    THEN IF ClassFields(type)[key].type = TO_MANY THEN {ListV(<<target>>)}
         ELSE {target}
    ELSE {target, ListV(<<target>>)}

\* the data of a relationship that names no record
NoLinkData == {ListV(<<>>), NullV}

\* the two records of a body: included and data, in either order
Layouts(S, T) ==
  {[data |-> <<S, T>>, included |-> <<>>], [data |-> <<T, S>>, included |-> <<>>],
   [data |-> <<T>>, included |-> <<S>>], [data |-> <<S>>, included |-> <<T>>]}

\* a record of a body with one attribute and the given relationships
Record(type, id, relationships) ==
  [type |-> type, id |-> id, attrs |-> (PlainKey(type) :> PlainV("b")),
   relationships |-> relationships]

\* the bodies in which the first record has the relationship `items` to the
\* second record
BodiesWith(type, key, target, items) ==
  {[body |-> body, source |-> RefV(type, 1), key |-> key, items |-> items,
    target |-> target] :
     body \in Layouts(Record(type, 1, (key :> items)),
                      Record(target.type, target.id, EmptyObj))}

\* the bodies of a response whose first record has one relationship: to the
\* second record of the body, or to no record (the body has one record then)
BodiesOf(type, key, target) ==
  UNION {BodiesWith(type, key, target, items) :
           items \in LinkData(type, key, target)}
  \cup
  {[body |-> [data |-> <<Record(type, 1, (key :> none))>>, included |-> <<>>],
    source |-> RefV(type, 1), key |-> key, items |-> none, target |-> NullV] :
     none \in NoLinkData}

LinkedBodies ==
  UNION {UNION {BodiesOf(type, key, RefV(ttype, MaxId)) : key \in LinkKeys(type)} :
           type \in Types, ttype \in Types}

\* ------------------------------------------------------------------ actions
NoFetch == [strategy |-> "", url |-> <<>>, entry |-> NoEntry, outcome |-> "",
            offered |-> NullV, requested |-> FALSE, err |-> NoErr,
            snapshot |-> NullV, option |-> NoOption, maxAge0 |-> FALSE,
            background |-> FALSE, inFlight |-> FALSE, seen |-> <<>>,
            before |-> [op |-> "", url |-> <<>>, err |-> NoErr]]

NoLast == [op |-> "init", h |-> NoHandle, key |-> "", arg |-> NullV,
           err |-> NoErr, ret |-> NullV, patches |-> <<>>, warned |-> FALSE]

Init ==
  /\ models = [h \in Handles |-> NoModel]
  /\ data = {}
  /\ map = [t \in Types |-> [i \in AllIds |-> NoHandle]]
  /\ other = [t \in Types |-> [i \in AllIds |-> NoHandle]]
  /\ autoId = [t \in Types |-> 0]
  /\ last = NoLast
  /\ steps = 0
  /\ cache = [url \in Fingerprints |-> NoEntry]
  /\ net = 0
  /\ fetched = NoFetch
  /\ config = CACHE_FIRST
  /\ pending = <<>>

\* the handler's world becomes the state; last records what the caller saw
CommitEntities(w, op, h, key, arg) ==
  /\ steps < MaxSteps
  /\ steps' = steps + 1
  /\ models' = w.models
  /\ data' = w.data
  /\ map' = w.map
  /\ other' = w.other
  /\ autoId' = w.autoId
  /\ last' = [op |-> op, h |-> h, key |-> key, arg |-> arg, err |-> w.err,
              ret |-> IF Failed(w) THEN NullV ELSE w.ret,
              patches |-> w.patches, warned |-> w.warned]

\* a call on the models and the collection leaves the cache alone
Commit(w, op, h, key, arg) ==
  /\ CommitEntities(w, op, h, key, arg)
  /\ UNCHANGED <<cache, net, fetched, config, pending>>

\* a new model can be made: a handle is free and the class has a local id left
CanCreate(type) ==
  /\ FreeHandles(World) # {}
  /\ autoId[type] > 0 - MaxModels

\* collection.add(rawData, type)
Add ==
  \E type \in Types : \E raw \in NewRaw(type) :
    /\ CanCreate(type)
    /\ Commit(collectionAdd(World, raw, type), "add", NoHandle, type, raw)

\* collection.sync(body) with one record
Sync ==
  \E obj \in SyncRecords :
    /\ (findOne(World, obj.type, obj.id) # NoHandle \/ CanCreate(obj.type))
    /\ Commit(sync(World, [data |-> <<obj>>, included |-> <<>>]),
              "sync", NoHandle, "", RefV(obj.type, obj.id))

\* the records of the body that the collection has no model of
Unknown(body) ==
  {RefV(obj.type, obj.id) : obj \in {r \in {iterateEntries(body)[i] :
                                             i \in 1..Len(iterateEntries(body))} :
                                       findOne(World, r.type, r.id) = NoHandle}}

\* collection.sync(body) with a relationship between the records of the body
SyncLinked ==
  \E b \in LinkedBodies :
    /\ b.target # b.source
    /\ Cardinality(Unknown(b.body)) <= Cardinality(FreeHandles(World))
    /\ Commit(sync(World, b.body), "synclinked", NoHandle, b.key,
              [k |-> "body", source |-> b.source, items |-> b.items,
               target |-> b.target, body |-> b.body])

\* collection.add(rawData, type) with a reference in the raw data
AddLinked ==
  \E type \in Types : \E raw \in LinkedRaw(type) :
    /\ CanCreate(type)
    /\ Commit(collectionAdd(World, raw, type), "add", NoHandle, type, raw)

\* add(rawData, type) on the second collection
AddOther ==
  \E type \in Types : \E raw \in OtherRaw(type) :
    /\ CanCreate(type)
    /\ Commit(otherAdd(World, raw, type), "addother", NoHandle, type, raw)

\* add(model) on the second collection, for a model that is in no collection
Move ==
  \E h \in Allocated(World) :
    /\ getModelCollection(World, h) = NoCollection
    /\ Commit(otherAdd(World, ModelV(h), models[h].class), "move", h, "", ModelV(h))

\* new ModelClass(rawData)
Construct ==
  \E type \in Types : \E raw \in DetachedRaw(type) :
    /\ CanCreate(type)
    /\ Commit(newModel(World, raw, type), "construct", NoHandle, RefKey(type), raw)

\* model[key] = value on the reference field of a model that is in no collection
WriteDetached ==
  \E h \in Allocated(World) : \E value \in DetachedValues(models[h].class) :
    /\ getModelCollection(World, h) = NoCollection
    /\ Commit(setField(World, h, RefKey(models[h].class), value),
              "write", h, RefKey(models[h].class), value)

respond_live(w, err, body) == IF err # NoErr THEN Throw(w, err) ELSE w

\* new Response(...) and __handleErrors: the records of the body of a
\* response are added to the collection, the error of a response is thrown
respond(w, err, body) ==
  IF err # NoErr THEN Throw(w, err)
  ELSE IF body = NullV THEN w
  ELSE sync(w, body)

\* what getOne(type, id) with the options of a call comes to: the response is
\* taken from the network or from the cache, a successful response of the
\* network is written to the cache; a call that is served the entry under a
\* revalidating strategy leaves a request in flight. The record of the call
\* keeps what went before it: the step and the call
called(option, maxAge0, url, outcome, payload) ==
  LET strategy == effectiveStrategy(option, config)
      entry == aged(cache[url], maxAge0)
      res == resolveFetch(strategy, entry, outcome, payload)
      behind == res.err = NoErr /\ revalidates(strategy, entry)
  IN [op |-> "fetch", key |-> strategy, arg |-> RefV(url[1], url[2]),
      url |-> url, err |-> res.err, body |-> res.payload,
      cache |-> IF res.store
                  THEN [cache EXCEPT ![url] = CacheEntry(res.payload)]
                  ELSE cache,
      net |-> IF res.requested \/ behind THEN net + 1 ELSE net,
      fetched |-> [strategy |-> strategy, url |-> url, entry |-> cache[url],
                   outcome |-> outcome, offered |-> payload,
                   requested |-> res.requested, err |-> res.err,
                   snapshot |-> res.payload, option |-> option,
                   maxAge0 |-> maxAge0, background |-> behind,
                   inFlight |-> behind,
                   seen |-> IF res.err = NoErr THEN <<res.payload>> ELSE <<>>,
                   before |-> [op |-> last.op, url |-> fetched.url,
                               err |-> fetched.err]],
      pending |-> IF behind
                    THEN Append(pending, [url |-> url, strategy |-> strategy])
                    ELSE pending]

swallows_never(strategy) == FALSE

\* the strategies whose request runs behind a response: its failure has no
\* one to go to
swallows(strategy) == strategy \in Revalidating

lookup_scoped(entries, coll, url) ==
  IF entries[url] # NoEntry /\ entries[url].owner = coll
    THEN entries[url] ELSE NoEntry

\* getCache(url): the entry of the url, whichever collection it was made for
lookup(entries, coll, url) == entries[url]

\* a call through the second collection: the same cache is asked, and a
\* response of the network is kept in it as one of the second collection
calledThrough(coll, option, maxAge0, url, outcome, payload) ==
  LET seenEntry == lookup(cache, coll, url)
      strategy == effectiveStrategy(option, config)
      res == resolveFetch(strategy, aged(seenEntry, maxAge0), outcome, payload)
      r == called(option, maxAge0, url, outcome, payload)
  IN [r EXCEPT
        !.op = "fetchother",
        !.err = res.err,
        !.body = res.payload,
        !.net = IF res.requested THEN net + 1 ELSE net,
        !.cache = IF res.store
                    THEN [cache EXCEPT
                            ![url] = [CacheEntry(res.payload) EXCEPT !.owner = coll]]
                    ELSE cache,
        !.fetched = [@ EXCEPT !.requested = res.requested, !.err = res.err,
                              !.snapshot = res.payload,
                              !.seen = IF res.err = NoErr THEN <<res.payload>>
                                                          ELSE <<>>]]

\* __addRecord(obj) on the second collection
addRecordOther(w, obj) ==
  LET record == w.other[obj.type][obj.id]
      flattened == flattenModel(obj)
  IN IF Failed(w) THEN w
     ELSE IF record # NoHandle
       THEN updateModel(w, record, flattened, KeysOf(flattened.attrs))
       ELSE otherAdd(w, flattened, obj.type)

RECURSIVE addRecordsOther(_, _)
addRecordsOther(w, records) ==
  IF Failed(w) \/ records = <<>> THEN w
  ELSE addRecordsOther(addRecordOther(w, Head(records)), Tail(records))

\* the response of a call through the second collection: a response of the
\* network is added to that collection (its bodies carry no relationships),
\* a response of the cache is returned as it is, an error is thrown
respondOther(w, err, body, requested) ==
  IF err # NoErr THEN Throw(w, err)
  ELSE IF ~requested THEN w
  ELSE addRecordsOther(w, iterateEntries(body))

\* what the return of the i-th request in flight comes to: a successful
\* answer replaces the entry, and the answer of the request behind the last
\* response is written into that response, whose observers see the new
\* value; a failure behind a response is dropped, a failure of a call that
\* waits for its answer is thrown. The record of the step keeps the return
\* that went right before it
completed(i, outcome, payload) ==
  LET call == pending[i]
      ok == outcome = NetworkOK
      behind == fetched.inFlight /\ i = Len(pending)
      follows == behind /\ updatesResponse(call.strategy)
  IN [op |-> "complete", key |-> call.strategy,
      arg |-> [k |-> "answer", url |-> call.url, ok |-> ok,
               payload |-> payload, behind |-> behind, index |-> i,
               before |-> IF last.op = "complete"
                            THEN [url |-> last.arg.url, ok |-> last.arg.ok,
                                  payload |-> last.arg.payload,
                                  index |-> last.arg.index]
                            ELSE [url |-> <<>>, ok |-> FALSE,
                                  payload |-> NullV, index |-> 0]],
      url |-> call.url,
      err |-> IF ok \/ swallows(call.strategy)
                THEN NoErr ELSE NETWORK_NOT_AVAILABLE,
      body |-> IF ok THEN payload ELSE NullV,
      cache |-> IF saveCache(outcome)
                  THEN [cache EXCEPT ![call.url] = CacheEntry(payload)]
                  ELSE cache,
      net |-> net,
      fetched |-> [fetched EXCEPT
                     !.inFlight = @ /\ ~behind,
                     !.seen = IF ok /\ follows /\ payload # fetched.snapshot
                                THEN Append(@, payload) ELSE @],
      pending |-> [j \in 1..(Len(pending) - 1) |->
                     IF j < i THEN pending[j] ELSE pending[j + 1]]]

\* a step of the network layer: the response is handed to the collection
\* and the cache, the counter and the requests in flight are as the step
\* left them
transport(r) ==
  /\ (findOne(World, r.url[1], r.url[2]) # NoHandle \/ CanCreate(r.url[1]))
  /\ CommitEntities(respond(World, r.err, r.body), r.op, NoHandle, r.key, r.arg)
  /\ cache' = r.cache
  /\ net' = r.net
  /\ fetched' = r.fetched
  /\ pending' = r.pending
  /\ UNCHANGED config

\* a step of the network layer for a call through the second collection
transportOther(r) ==
  /\ (other[r.url[1]][r.url[2]] # NoHandle \/ CanCreate(r.url[1]))
  /\ CommitEntities(respondOther(World, r.err, r.body, r.fetched.requested),
                    r.op, NoHandle, r.key, r.arg)
  /\ cache' = r.cache
  /\ net' = r.net
  /\ fetched' = r.fetched
  /\ pending' = r.pending
  /\ UNCHANGED config

\* getOne(type, id) with the options of the call
fetchCall(option, maxAge0, url, outcome, payload) ==
  transport(called(option, maxAge0, url, outcome, payload))

\* a call that names one of the three strategies that wait for their answer
Fetch ==
  \E strategy \in Strategies : \E url \in Fingerprints :
    \E outcome \in {NetworkOK, NetworkDown} : \E payload \in Payloads(url) :
      fetchCall(strategy, FALSE, url, outcome, payload)

\* a cache-only call, and the network-first call that fills the cache for it
FetchCacheOnly ==
  \E strategy \in {CACHE_ONLY, NETWORK_FIRST} : \E url \in Fingerprints :
    \E outcome \in {NetworkOK, NetworkDown} : \E payload \in Payloads(url) :
      fetchCall(strategy, FALSE, url, outcome, payload)

\* a step under the revalidating strategies: a call (i = 0), or the return of
\* the i-th request in flight behind an earlier call
Revalidate ==
  \E i \in 0..Len(pending) : \E outcome \in {NetworkOK, NetworkDown} :
    \E strategy \in Revalidating : \E url \in Fingerprints :
      \E payload \in Payloads(url) :
        /\ i > 0 => strategy = pending[i].strategy /\ url = pending[i].url
        /\ transport(IF i = 0
                       THEN called(strategy, FALSE, url, outcome, payload)
                       ELSE completed(i, outcome, payload))

\* the value a caller gives an attribute that no response of the server has
Modified == PlainV("m")

\* model[key] = value on the attribute of a model of the collection
Modify ==
  \E h \in data :
    Commit(setField(World, h, PlainKey(models[h].class), Modified),
           "modify", h, PlainKey(models[h].class), Modified)

\* a call through the second collection that may be served the cache
FetchOther ==
  \E strategy \in {CACHE_FIRST, CACHE_ONLY} : \E url \in Fingerprints :
    \E outcome \in {NetworkOK, NetworkDown} : \E payload \in Payloads(url) :
      transportOther(calledThrough(OtherRegistry, strategy, FALSE, url,
                                   outcome, payload))

requested_coalesced(inFlight, call) ==
  IF \E i \in 1..Len(inFlight) : inFlight[i].url = call.url
    THEN inFlight ELSE Append(inFlight, call)

\* the requests in flight after a call issued its own: requests for the same
\* url are not joined
requested(inFlight, call) == Append(inFlight, call)

\* a call that always asks the network issues its request and waits
Request ==
  \E url \in Fingerprints :
    /\ steps < MaxSteps
    /\ steps' = steps + 1
    /\ pending' = requested(pending, [url |-> url, strategy |-> NETWORK_ONLY])
    /\ net' = net + (Len(pending') - Len(pending))
    /\ last' = [NoLast EXCEPT !.op = "request", !.key = NETWORK_ONLY,
                              !.arg = RefV(url[1], url[2])]
    /\ UNCHANGED <<models, data, map, other, autoId, cache, fetched, config>>

\* the answer to a request in flight arrives, in any order
Respond ==
  \E i \in 1..Len(pending) : \E outcome \in {NetworkOK, NetworkDown} :
    \E payload \in Payloads(pending[i].url) :
      transport(completed(i, outcome, payload))

\* a cache-first call with or without cacheOptions.maxAge of 0
FetchMaxAge ==
  \E maxAge0 \in BOOLEAN : \E url \in Fingerprints :
    \E outcome \in {NetworkOK, NetworkDown} : \E payload \in Payloads(url) :
      fetchCall(CACHE_FIRST, maxAge0, url, outcome, payload)

\* a call with a cachingStrategy option that may name no strategy, or with none
FetchOption ==
  \E option \in {NoOption, CACHE_FIRST, NETWORK_ONLY, INVALID_STRATEGY} :
    \E url \in Fingerprints :
      \E outcome \in {NetworkOK, NetworkDown} : \E payload \in Payloads(url) :
        fetchCall(option, FALSE, url, outcome, payload)

\* a call the server may answer with an error
FetchAnswered ==
  \E strategy \in {CACHE_FIRST, NETWORK_FIRST} : \E url \in Fingerprints :
    \E outcome \in {NetworkOK, NetworkDown, NetworkError} :
      \E payload \in Payloads(url) :
        fetchCall(strategy, FALSE, url, outcome, payload)

\* config.cache = strategy: the value is kept as it is given
Configure ==
  \E strategy \in {CACHE_FIRST, NETWORK_ONLY, INVALID_STRATEGY} :
    /\ steps < MaxSteps
    /\ strategy # config
    /\ steps' = steps + 1
    /\ config' = strategy
    /\ last' = [NoLast EXCEPT !.op = "configure"]
    /\ UNCHANGED <<models, data, map, other, autoId, cache, net, fetched, pending>>

\* time passes: the age of an entry exceeds the maximal age
Expire ==
  \E url \in Fingerprints :
    /\ steps < MaxSteps
    /\ cache[url] # NoEntry
    /\ cache[url].fresh
    /\ steps' = steps + 1
    /\ cache' = [cache EXCEPT ![url].fresh = FALSE]
    /\ last' = [NoLast EXCEPT !.op = "expire"]
    /\ UNCHANGED <<models, data, map, other, autoId, net, fetched, config, pending>>

\* store.removeAll(type): the models of the type leave the collection and
\* the entries of its requests leave the cache
RemoveAll ==
  \E type \in Types :
    /\ CommitEntities(removeAll(World, ModelsOf(type)), "removeAll", NoHandle, type, NullV)
    /\ cache' = clearCacheByType(cache, type)
    /\ UNCHANGED <<net, fetched, config, pending>>

\* store.reset(): the collection is emptied and so is the cache
ResetStore ==
  /\ CommitEntities(collectionReset(World), "reset", NoHandle, "", NullV)
  /\ cache' = clearAllCache(cache)
  /\ UNCHANGED <<net, fetched, config, pending>>

\* collection.remove(model)
Remove ==
  \E h \in data :
    Commit(collectionRemove(World, h), "remove", h, "", NullV)

\* collection.reset()
Reset ==
  /\ data # {}
  /\ Commit(collectionReset(World), "reset", NoHandle, "", NullV)

\* the server assigns an identifier to a model that carries a local one
Rename ==
  \E h \in Allocated(World) : \E newId \in ServerIds :
    /\ getModelId(World, h) < 0
    /\ findOne(World, models[h].meta.type, newId) = NoHandle
    /\ Commit(updateModelId(World, h, newId), "rename", h, "", IdV(newId))

\* model[key] = value on a reference field
Link ==
  \E h \in Allocated(World) :
    \E value \in RefValues(ClassFields(models[h].class)[RefKey(models[h].class)].type,
                           ClassFields(models[h].class)[RefKey(models[h].class)].model) :
      Commit(setField(World, h, RefKey(models[h].class), value),
             "write", h, RefKey(models[h].class), value)

\* the newest and the oldest model of the collection
LastModel == CHOOSE g \in data : \A g2 \in data : g2 <= g
FirstModel == CHOOSE g \in data : \A g2 \in data : g <= g2

\* the entity values a caller assigns: the newest model of the collection,
\* and the list of the newest and the oldest one
EntityValues ==
  (IF data = {} THEN {} ELSE {ModelV(LastModel)})
    \cup (IF Cardinality(data) < 2 THEN {}
          ELSE {ListV(<<ModelV(LastModel), ModelV(FirstModel)>>)})

\* the values a caller assigns: entity values to every field, null and a
\* list of one model to a reference field, a plain string to any other
AssignValues(isRef) ==
  EntityValues
    \cup (IF isRef
          THEN {NullV} \cup (IF data = {} THEN {} ELSE {ListV(<<ModelV(LastModel)>>)})
          ELSE {PlainV("b")})

\* the keys a caller assigns: the fields of the class and one that is not in it
AssignKeys(type) == DOMAIN ClassFields(type) \cup {"extra"}

\* the field is a reference field of the model
IsRefField(h, key) ==
  /\ key \in DOMAIN models[h].meta.fields
  /\ models[h].meta.fields[key].referenceDef

\* assignModel(model, key, value)
Assign ==
  \E h \in Allocated(World) :
    \E key \in AssignKeys(models[h].class) :
      \E value \in AssignValues(IsRefField(h, key)) :
        Commit(assignModel(World, h, key, value), "assign", h, key, value)

\* updateModel(model, data)
Update ==
  \E h \in Allocated(World) :
    \E dataObj \in UpdateData(h) :
      Commit(updateModel(World, h, dataObj, KeysOf(dataObj.attrs)),
             "update", h, "", dataObj)

\* the value of the first key of an update of two keys: an undeclared name
\* gets a plain value, the reference field an identifier
FirstValue(type, key) ==
  IF key # RefKey(type) THEN PlainV("b")
  ELSE IF ClassFields(type)[key].type = TO_MANY THEN ListV(<<IdV(MaxId)>>)
  ELSE IdV(MaxId)

\* updateModel(model, data) with two keys in data, in the order the caller
\* gave them: the second is the plain field, with a plain value or a model
UpdateTwo ==
  \E h \in data :
    \E first \in {"extra", RefKey(models[h].class)} :
      \E value \in {PlainV("b")} \cup {ModelV(g) : g \in data} :
        LET type == models[h].class
            dataObj == RawV(EmptyObj, (first :> FirstValue(type, first))
                                        @@ (PlainKey(type) :> value))
        IN Commit(updateModel(World, h, dataObj, <<first, PlainKey(type)>>),
                  "updatetwo", h, first, dataObj)

\* the first values of a field that is not in the schema: a model, a list
\* that starts with a model, a {type, id}, a list that starts with a {type, id},
\* the empty list, a string, null, and a list of a string
ExtraValues ==
  {ModelV(g) : g \in data} \cup {ListV(<<ModelV(g)>>) : g \in data}
    \cup UNION {{RefV(type, 1), ListV(<<RefV(type, 1)>>)} : type \in Types}
    \cup {ListV(<<>>), PlainV("b"), NullV, ListV(<<PlainV("b")>>)}

\* collection.add(rawData, type) with a field that is not in the schema
AddExtra ==
  \E type \in Types : \E extra \in {EmptyObj} \cup {("extra" :> v) : v \in ExtraValues} :
    /\ CanCreate(type)
    /\ Commit(collectionAdd(World, RawV(EmptyObj, (PlainKey(type) :> PlainV("a")) @@ extra),
                            type),
              "addextra", NoHandle, "extra",
              IF extra = EmptyObj THEN UndefV ELSE extra["extra"])

\* assignModel(model, key, value) for a key that is not in the schema yet
AssignExtra ==
  \E h \in data : \E value \in ExtraValues :
    /\ "extra" \notin DOMAIN models[h].meta.fields
    /\ Commit(assignModel(World, h, "extra", value), "assignextra", h, "extra", value)

\* collection.add(rawData, type) with the id and the type among the fields
AddKeyed ==
  \E type \in Types : \E raw \in NewKeyedRaw(type) :
    /\ CanCreate(type)
    /\ Commit(collectionAdd(World, raw, type), "add", NoHandle, type, raw)

\* new ModelClass(rawData) with an id in the raw data: a model of no collection
ConstructKeyed ==
  \E type \in Types : \E raw \in NewKeyedRaw(type) :
    /\ CanCreate(type)
    /\ Commit(newModel(World, raw, type), "construct", NoHandle, type, raw)

\* an object that is no {type, id}, as the value of the reference field
InlineValue(type, g) ==
  IF ClassFields(type)[RefKey(type)].type = TO_MANY
    THEN ListV(<<ModelV(g)>>) ELSE ModelV(g)

\* model[key] = object on the reference field of a model of the collection;
\* the object is a model that is in no collection, which the resolution adds
WriteInline ==
  \E h \in data : \E g \in Allocated(World) \ data :
    Commit(setField(World, h, RefKey(models[h].class),
                    InlineValue(models[h].class, g)),
           "writeinline", h, RefKey(models[h].class),
           InlineValue(models[h].class, g))

\* collection.add(rawData, type) of an event that has the back-reference field
AddBack ==
  \E raw \in BackRefRaw :
    /\ CanCreate("event")
    /\ Commit(collectionAdd(World, raw, "event"), "add", NoHandle, "event", raw)

\* model[key] = value on the to-one field of an image, with an event of the
\* collection or null
LinkEntity ==
  \E h \in ModelsOf("image") :
    \E value \in {NullV} \cup {ModelV(g) : g \in ModelsOf("event")} :
      Commit(setField(World, h, RefKey("image"), value),
             "write", h, RefKey("image"), value)

\* model[key] = list on the back-reference field of a model of the collection
WriteBack ==
  \E h \in data :
    /\ IsBackRefKey(World, h, BackRefKey)
    /\ \E hs \in SUBSET ModelsOf(models[h].meta.fields[BackRefKey].model) :
         Commit(setField(World, h, BackRefKey,
                         ListV([i \in 1..Cardinality(hs) |-> ModelV(InOrder(hs)[i])])),
                "writeback", h, BackRefKey,
                ListV([i \in 1..Cardinality(hs) |-> ModelV(InOrder(hs)[i])]))

\* model.id = value, model.type = value
WriteIdentity ==
  \E h \in Allocated(World) :
    \E key \in {"id", "type"} \cap DOMAIN models[h].meta.fields :
      \E value \in {IdV(1), PlainV(OtherType(models[h].class))} :
        /\ (key = "id") = (value.k = "id")
        /\ Commit(setField(World, h, key, value), "write", h, key, value)

\* updateModel(model, data) with data that carries an id and a type
UpdateIdentity ==
  \E h \in Allocated(World) :
    \E dataObj \in IdentityData(h) :
      Commit(updateModel(World, h, dataObj, KeysOf(dataObj.attrs)),
             "update", h, "", dataObj)

\* cloneModel(model)
Clone ==
  \E h \in Allocated(World) :
    /\ CanCreate(models[h].class)
    /\ Commit(cloneModel(World, h), "clone", h, "", NullV)

\* the registry under adds, syncs, removals, resets and renames
NextRegistry ==
  \/ Add
  \/ Sync
  \/ Remove
  \/ Reset
  \/ Rename

SpecRegistry == Init /\ [][NextRegistry]_vars

\* the reference fields under adds, writes, removals and renames
NextRefs ==
  \/ Add
  \/ Link
  \/ Remove
  \/ Rename

SpecRefs == Init /\ [][NextRefs]_vars

\* clones of attached and detached models
NextClone ==
  \/ Add
  \/ Link
  \/ Remove
  \/ Clone

SpecClone == Init /\ [][NextClone]_vars

\* snapshots of linked models
NextSnapshot ==
  \/ Add
  \/ Link

SpecSnapshot == Init /\ [][NextSnapshot]_vars

\* clones and their originals, without references
NextOriginal ==
  \/ Add
  \/ Remove
  \/ Clone

SpecOriginal == Init /\ [][NextOriginal]_vars

\* updates of several fields
NextUpdate ==
  \/ Add
  \/ Update

SpecUpdate == Init /\ [][NextUpdate]_vars

\* assignments to declared and undeclared fields of attached and detached models
NextAssign ==
  \/ Add
  \/ Remove
  \/ Assign

SpecAssign == Init /\ [][NextAssign]_vars

\* the identity of the models under writes, updates and renames
NextIdentity ==
  \/ Add
  \/ AddKeyed
  \/ WriteIdentity
  \/ UpdateIdentity
  \/ Rename

SpecIdentity == Init /\ [][NextIdentity]_vars

\* back-references under adds, forward writes and writes to the back-reference
NextBackRefs ==
  \/ Add
  \/ AddBack
  \/ LinkEntity
  \/ WriteBack

SpecBackRefs == Init /\ [][NextBackRefs]_vars

NextMove ==
  \/ AddLinked
  \/ AddOther
  \/ Remove
  \/ Move

SpecMove == Init /\ [][NextMove]_vars

NextDetached ==
  \/ Add
  \/ Remove
  \/ Construct
  \/ WriteDetached

SpecDetached == Init /\ [][NextDetached]_vars

NextCache ==
  \/ Fetch
  \/ Expire

SpecCache == Init /\ [][NextCache]_vars

NextCacheOnly ==
  \/ FetchCacheOnly
  \/ Expire

SpecCacheOnly == Init /\ [][NextCacheOnly]_vars

NextRevalidate ==
  \/ Revalidate
  \/ Expire

SpecRevalidate == Init /\ [][NextRevalidate]_vars

NextMaxAge ==
  \/ FetchMaxAge
  \/ Expire

SpecMaxAge == Init /\ [][NextMaxAge]_vars

NextConfig ==
  \/ FetchOption
  \/ Configure

SpecConfig == Init /\ [][NextConfig]_vars

NextAnswered ==
  \/ FetchAnswered
  \/ Expire

SpecAnswered == Init /\ [][NextAnswered]_vars

NextOverlap ==
  \/ Request
  \/ Respond

SpecOverlap == Init /\ [][NextOverlap]_vars

NextInline ==
  \/ Add
  \/ ConstructKeyed
  \/ WriteInline

SpecInline == Init /\ [][NextInline]_vars

NextPartial ==
  \/ Add
  \/ UpdateTwo
  \/ Modify

SpecPartial == Init /\ [][NextPartial]_vars

NextExtra ==
  \/ AddExtra
  \/ AssignExtra

SpecExtra == Init /\ [][NextExtra]_vars

NextLinked ==
  \/ SyncLinked
  \/ Remove

SpecLinked == Init /\ [][NextLinked]_vars

NextShared ==
  \/ Fetch
  \/ FetchOther

SpecShared == Init /\ [][NextShared]_vars

NextDirty ==
  \/ Fetch
  \/ Modify

SpecDirty == Init /\ [][NextDirty]_vars

NextPurge ==
  \/ Fetch
  \/ RemoveAll
  \/ ResetStore

SpecPurge == Init /\ [][NextPurge]_vars

\* the state a step leads to, as a world
WorldAfter == [models |-> models', data |-> data', map |-> map', other |-> other',
               autoId |-> autoId',
               patches |-> <<>>, warned |-> FALSE, ret |-> NullV, err |-> NoErr]

\* ------------------------------------------------------------------ claims
\* C1: every entity of the registry, added by add or by sync and not removed
\* since, is the object find(type, id) returns for its own type and id
C1_FindReturnsTheEntity ==
  /\ \A h \in data : findOne(World, models[h].meta.type, models[h].meta.id) = h
  /\ (last.op = "add" /\ last.err = NoErr) =>
       (isModel(last.ret) /\ last.ret.h \in data)
  /\ (last.op = "sync" /\ last.err = NoErr) =>
       findOne(World, last.arg.type, last.arg.id) \in data

\* a sync has run on a registry that holds two entities
C1_Witness ==
  /\ last.op = "sync"
  /\ last.err = NoErr
  /\ Cardinality(data) = 2
  /\ findOne(World, last.arg.type, last.arg.id) \in data

\* the items of a value a field reads, as a sequence
ItemsOf(value) == IF isArrayLike(value) THEN value.items ELSE <<value>>

\* the reference fields of the models
RefFields == {<<h, key>> \in Handles \X FieldNames :
                h \in Allocated(World) /\ key \in DOMAIN models[h].refs}

\* C2: when remove(E) has run, a reference field of another entity that
\* resolved to E reads the placeholder {id, type} of E in the position of E,
\* the remove raises no error, and the other items of the field and their
\* order are as they were
C2_RemovedReadsAsPlaceholder ==
  [][last'.op = "remove" =>
       /\ last'.err = NoErr
       /\ \A f \in RefFields :
            f[1] # last'.h =>
              ReadField(WorldAfter, f[1], f[2]) =
                mapItems(ReadField(World, f[1], f[2]),
                         LAMBDA item :
                           IF item = ModelV(last'.h)
                             THEN RefV(models[last'.h].meta.type,
                                       models[last'.h].meta.id)
                             ELSE item)]_vars

\* an entity has been removed that a two-item list of another entity held:
\* the list reads the placeholder of the removed entity and the other item
C2_Witness ==
  /\ last.op = "remove"
  /\ \E f \in RefFields :
       /\ f[1] \in data
       /\ isArrayLike(ReadField(World, f[1], f[2]))
       /\ Len(ReadField(World, f[1], f[2]).items) = 2
       /\ ReadField(World, f[1], f[2]).items[1] =
            RefV(models[last.h].meta.type, models[last.h].meta.id)
       /\ findOne(World, models[last.h].meta.type, models[last.h].meta.id) = NoHandle

\* the placeholder a written item stands for: a bare id takes the type the
\* field declares
PlaceholderOf(h, key, item) ==
  IF item.k = "ref" THEN item ELSE RefV(models[h].meta.fields[key].model, item.id)

\* C3: a reference field written with a bare id or a {id, type} placeholder
\* whose target is not in the registry reads as the placeholder {id, type};
\* when an entity with that type and id is added, the field reads the entity,
\* and the stored reference has not been rewritten
C3_PlaceholderUntilAdded ==
  [][/\ (last'.op = "write" /\ last'.err = NoErr) =>
          \A i \in 1..Len(ItemsOf(last'.arg)) :
            LET item == ItemsOf(last'.arg)[i]
                ref == PlaceholderOf(last'.h, last'.key, item)
            IN (item.k \in {"id", "ref"}
                  /\ findOne(WorldAfter, ref.type, ref.id) = NoHandle) =>
                 ItemsOf(ReadField(WorldAfter, last'.h, last'.key))[i] = ref
     /\ (last'.op = "add" /\ last'.err = NoErr) =>
          \A f \in RefFields :
            /\ models'[f[1]].refs[f[2]] = models[f[1]].refs[f[2]]
            /\ \A i \in 1..Len(ItemsOf(ReadField(World, f[1], f[2]))) :
                 ItemsOf(ReadField(World, f[1], f[2]))[i] =
                     RefV(models'[last'.ret.h].meta.type,
                          models'[last'.ret.h].meta.id)
                   /\ f[1] \in data
                   => ItemsOf(ReadField(WorldAfter, f[1], f[2]))[i] = last'.ret]_vars

\* an entity has been added whose type and id a field of another entity of
\* the registry already held: the field reads the new entity
C3_Witness ==
  /\ last.op = "add"
  /\ last.err = NoErr
  /\ \E f \in RefFields :
       /\ f[1] \in data
       /\ f[1] # last.ret.h
       /\ \E i \in 1..Len(ItemsOf(ReadField(World, f[1], f[2]))) :
            ItemsOf(ReadField(World, f[1], f[2]))[i] = last.ret

C5_DuplicateAddFails ==
  [][(/\ last'.op = "add"
      /\ "id" \in DOMAIN last'.arg.meta
      /\ findOne(World, last'.key, last'.arg.meta.id) # NoHandle) =>
       /\ last'.err = MODEL_EXISTS
       /\ UNCHANGED <<models, data, map, autoId>>]_vars

\* an add has failed on an id the registry holds
C5_Witness ==
  /\ last.op = "add"
  /\ last.err = MODEL_EXISTS
  /\ findOne(World, last.key, last.arg.meta.id) \in data

\* an empty registry
FreshWorld ==
  [models |-> [h \in Handles |-> NoModel], data |-> {},
   map |-> [t \in Types |-> [i \in AllIds |-> NoHandle]],
   other |-> [t \in Types |-> [i \in AllIds |-> NoHandle]],
   autoId |-> [t \in Types |-> 0],
   patches |-> <<>>, warned |-> FALSE, ret |-> NullV, err |-> NoErr]

\* add(toRawForm(h), class of h) on an empty registry
Recreated(h) == collectionAdd(FreshWorld, modelToJSON(World, h), models[h].class)

\* a snapshot value of a reference field: null, {id, type}, or a list of {id, type}
IsRefSnapshot(value) ==
  \/ value.k = "null"
  \/ value.k = "ref"
  \/ isArrayLike(value) /\ \A i \in 1..Len(value.items) : value.items[i].k = "ref"

HasTruthySnapshot(h) ==
  \E key \in DOMAIN models[h].refs : Truthy(BucketSnapshot(models[h].refs[key]))

\* C7 as stated: clone() of an entity that is in no registry fails with an
\* error and produces no new entity
C7_DetachedCloneFails ==
  (last.op = "clone" /\ getModelCollection(World, last.h) = NoCollection) =>
    (last.err # NoErr /\ ~isModel(last.ret))

\* C7 amended: clone() of an entity that is in no registry warns; it fails,
\* with 'The model needs to be in a collection to be referenceable' and no new
\* entity, exactly when a reference field of the entity has a truthy snapshot;
\* otherwise it returns a new entity that is in no registry and has
\* originalId = id(E)
C7_DetachedCloneWarns ==
  [][(last'.op = "clone" /\ getModelCollection(World, last'.h) = NoCollection) =>
       /\ last'.warned
       /\ data' = data
       /\ IF HasTruthySnapshot(last'.h)
            THEN /\ last'.err = NEEDS_COLLECTION
                 /\ models' = models
            ELSE /\ last'.err = NoErr
                 /\ isModel(last'.ret)
                 /\ last'.ret.h \notin Allocated(World)
                 /\ models'[last'.ret.h].meta.collection = NoCollection
                 /\ models'[last'.ret.h].meta.originalId = models[last'.h].meta.id
                 /\ \A g \in Allocated(World) : models'[g] = models[g]]_vars

\* an entity that is in no registry has been cloned, and the clone exists
C7_Witness ==
  /\ last.op = "clone"
  /\ getModelCollection(World, last.h) = NoCollection
  /\ last.err = NoErr
  /\ last.warned
  /\ isModel(last.ret)
  /\ last.ret.h \notin data

\* C8: the raw form of an entity holds, for every reference field, null, a
\* {id, type} placeholder or a list of them, never an entity; added to an
\* empty registry it makes an entity with the same id, type, plain fields and
\* reference identifiers
C8_RawFormRoundTrips ==
  \A h \in Allocated(World) :
    LET raw == modelToJSON(World, h)
        again == Recreated(h)
        rawAgain == modelToJSON(again, again.ret.h)
    IN /\ \A key \in DOMAIN models[h].refs : IsRefSnapshot(raw.attrs[key])
       /\ again.err = NoErr
       /\ rawAgain.attrs = raw.attrs
       /\ rawAgain.meta.id = models[h].meta.id
       /\ rawAgain.meta.type = models[h].meta.type

\* two entities of the registry refer to each other
C8_Witness ==
  \E e \in data : \E i \in data :
    /\ "images" \in DOMAIN models[e].refs
    /\ "event" \in DOMAIN models[i].refs
    /\ ReadField(World, i, "event") = ModelV(e)
    /\ \E n \in 1..Len(ReadField(World, e, "images").items) :
         ReadField(World, e, "images").items[n] = ModelV(i)

\* C9 as stated: the snapshot of a clone carries originalId in its meta part,
\* the snapshot of a non-clone carries none
C9_SnapshotCarriesOriginalId ==
  \A h \in Allocated(World) :
    models[h].meta.originalId # NoId =>
      /\ "originalId" \in DOMAIN modelToJSON(World, h).meta
      /\ modelToJSON(World, h).meta.originalId = models[h].meta.originalId

\* C9 amended: the snapshot of an entity, clone or not, carries no
\* originalId in its meta part, and an entity re-created from the snapshot is
\* not a clone
C9_SnapshotOmitsOriginalId ==
  \A h \in Allocated(World) :
    LET again == Recreated(h)
    IN /\ "originalId" \notin DOMAIN modelToJSON(World, h).meta
       /\ again.err = NoErr
       /\ again.models[again.ret.h].meta.originalId = NoId
       /\ getOriginalModel(again, again.ret.h).err = NOT_A_CLONE

\* a clone exists
C9_Witness ==
  \E h \in Allocated(World) :
    /\ models[h].meta.originalId # NoId
    /\ getOriginalModel(World, h).err # NOT_A_CLONE
    /\ last.op = "clone"
    /\ last.ret = ModelV(h)

\* the fields of h that a step changes
ChangedFields(h) ==
  {key \in DOMAIN ObservedState(WorldAfter, h) :
     \/ key \notin DOMAIN ObservedState(World, h)
     \/ ObservedState(WorldAfter, h)[key] # ObservedState(World, h)[key]}

LooksLikeReference(value) ==
  \/ isModel(value)
  \/ isArrayLike(value) /\ Len(value.items) > 0 /\ isModel(value.items[1])

\* C11: assigning an entity, or a list whose first item is an entity, to a
\* field that the schema of the entity holds as a plain field fails with
\* 'You should save this value as a reference.'; the value of the field, the
\* schema entry and everything else are as they were
C11_PlainFieldRejectsEntity ==
  [][(/\ last'.op = "assign"
      /\ last'.key \in DOMAIN models[last'.h].meta.fields
      /\ ~models[last'.h].meta.fields[last'.key].referenceDef
      /\ LooksLikeReference(last'.arg)) =>
       /\ last'.err = NO_REFS
       /\ ReadField(WorldAfter, last'.h, last'.key) = ReadField(World, last'.h, last'.key)
       /\ models'[last'.h].meta.fields = models[last'.h].meta.fields
       /\ UNCHANGED <<models, data, map, autoId>>]_vars

\* a list of two entities has been assigned to a plain field that holds a
\* value, and the assignment has failed
C11_Witness ==
  /\ last.op = "assign"
  /\ last.err = NO_REFS
  /\ isArrayLike(last.arg)
  /\ Len(last.arg.items) = 2
  /\ last.key \in DOMAIN ClassFields(models[last.h].class)
  /\ ReadField(World, last.h, last.key) = PlainV("a")

\* an entity of the registry, or a list of entities of the registry
IsEntityValue(value) ==
  \/ isModel(value) /\ value.h \in data
  \/ /\ isArrayLike(value)
     /\ Len(value.items) > 0
     /\ \A i \in 1..Len(value.items) :
          isModel(value.items[i]) /\ value.items[i].h \in data

\* the {id, type} form of an entity-valued value
SnapshotOf(value) == mapItems(value, LAMBDA item : getModelRef(World, item))

\* C12 as stated: the first assignment of an entity or a list of entities to
\* a field name that is not in the schema of the entity succeeds, and the
\* field then reads the assigned value
C12_FirstEntityAssignSucceeds ==
  [][(/\ last'.op = "assign"
      /\ last'.key \notin DOMAIN models[last'.h].meta.fields
      /\ IsEntityValue(last'.arg)) =>
       /\ last'.err = NoErr
       /\ ReadField(WorldAfter, last'.h, last'.key) = last'.arg]_vars

\* C12 amended: for an entity that is in a registry, the first assignment of
\* an entity or a list of entities of the registry to a field name that is
\* not in its schema succeeds and makes the field a to-one-or-many reference
\* field: it reads the assigned value, its snapshot is the {id, type} form,
\* and later entity-valued assignments to it succeed and are read back; for an
\* entity that is in no registry the assignment fails with 'The model needs
\* to be in a collection to be referenceable', the field reads undefined and
\* only the schema entry stays
C12_UpgradeInRegistry ==
  [][/\ (/\ last'.op = "assign"
         /\ last'.key \notin DOMAIN models[last'.h].meta.fields
         /\ IsEntityValue(last'.arg)) =>
          LET h == last'.h
              key == last'.key
          IN /\ key \in DOMAIN models'[h].meta.fields
             /\ models'[h].meta.fields[key].referenceDef
             /\ models'[h].meta.fields[key].type = TO_ONE_OR_MANY
             /\ IF h \in data
                  THEN /\ last'.err = NoErr
                       /\ ReadField(WorldAfter, h, key) = last'.arg
                       /\ modelToJSON(WorldAfter, h).attrs[key] = SnapshotOf(last'.arg)
                  ELSE /\ last'.err = NEEDS_COLLECTION
                       /\ ReadField(WorldAfter, h, key) = UndefV
                       /\ modelToJSON(WorldAfter, h).attrs[key] = NullV
     /\ (/\ last'.op = "assign"
         /\ last'.h \in data
         /\ last'.key \notin DOMAIN ClassFields(models[last'.h].class)
         /\ last'.key \in DOMAIN models[last'.h].refs
         /\ IsEntityValue(last'.arg)) =>
          /\ last'.err = NoErr
          /\ ReadField(WorldAfter, last'.h, last'.key) = last'.arg
          /\ modelToJSON(WorldAfter, last'.h).attrs[last'.key] =
               SnapshotOf(last'.arg)]_vars

\* a field that a first assignment of one entity has made a reference field
\* has been assigned a list of two entities and reads that list
C12_Witness ==
  /\ last.op = "assign"
  /\ last.err = NoErr
  /\ last.h \in data
  /\ last.key = "extra"
  /\ last.key \in DOMAIN models[last.h].refs
  /\ models[last.h].meta.fields[last.key].type = TO_ONE_OR_MANY
  /\ isArrayLike(last.arg)
  /\ Len(last.arg.items) = 2
  /\ ReadField(World, last.h, last.key) = last.arg
  /\ steps >= 4

\* C13: the type and the id of an entity change through no ordinary write:
\* a direct assignment to the type field or the id field of the schema raises
\* an error and changes nothing, update(E, data) leaves id(E) and type(E) as
\* they were whatever id or type data carries, as fields or in its meta
\* part, and the registry still finds E under them; the rename operation is
\* the one that changes the id
C13_IdentityIsReadOnly ==
  [][/\ \A h \in Allocated(World) :
          /\ models'[h].meta.type = models[h].meta.type
          /\ last'.op # "rename" => models'[h].meta.id = models[h].meta.id
          /\ (last'.op # "rename" /\ h \in data) =>
               findOne(WorldAfter, models[h].meta.type, models[h].meta.id) = h
     /\ (last'.op = "write" /\ last'.key \in {"id", "type"}) =>
          /\ last'.err = IF last'.key = "id" THEN ID_READ_ONLY ELSE TYPE_READ_ONLY
          /\ UNCHANGED <<models, data, map, autoId>>
     /\ last'.op = "update" =>
          /\ last'.err = NoErr
          /\ ReadField(WorldAfter, last'.h, PlainKey(models[last'.h].class)) = PlainV("b")
     /\ last'.op = "rename" =>
          /\ models'[last'.h].meta.id = last'.arg.id
          /\ models'[last'.h].meta.id # models[last'.h].meta.id]_vars

\* an update whose data carries another id and another type, as fields and
\* in its meta part, has run on an entity that has the id and type fields
C13_Witness ==
  /\ last.op = "update"
  /\ last.err = NoErr
  /\ "id" \in DOMAIN models[last.h].meta.fields
  /\ "type" \in DOMAIN last.arg.attrs
  /\ "type" \in DOMAIN last.arg.meta
  /\ last.arg.attrs.id.id # models[last.h].meta.id
  /\ last.arg.meta.id # models[last.h].meta.id
  /\ last.arg.attrs.type.v # models[last.h].meta.type
  /\ ReadField(World, last.h, "id") = IdV(models[last.h].meta.id)

\* one item of a reference: an entity or a {id, type} placeholder
IsRefItem(value) == value.k \in {"model", "ref"}

\* the value a reference field of the given arity may read
ArityHolds(refType, value) ==
  CASE refType = TO_ONE -> value.k = "null" \/ IsRefItem(value)
    [] refType = TO_MANY ->
         isArrayLike(value) /\ \A i \in 1..Len(value.items) : IsRefItem(value.items[i])
    [] OTHER ->
         \/ value.k = "null"
         \/ IsRefItem(value)
         \/ isArrayLike(value) /\ \A i \in 1..Len(value.items) : IsRefItem(value.items[i])

\* both are null, both are single items, or both are lists of one length
SameShape(a, b) ==
  /\ (a.k = "null") = (b.k = "null")
  /\ isArrayLike(a) = isArrayLike(b)
  /\ isArrayLike(a) => Len(a.items) = Len(b.items)

\* C14: after every step every to-one field reads null or a single item and
\* every to-many field reads a list (the empty list when nothing is assigned,
\* never null); a write of a list to a to-one field fails with REF_SINGLE, a
\* write of a single value to a to-many field fails with REF_ARRAY, and both
\* leave the field as it was; every other write to a reference field of an
\* entity of the registry succeeds, and a to-one-or-many field then reads the
\* single value or the list that was written
C14_ArityIsInvariant ==
  [][/\ \A h \in Allocated(WorldAfter) :
          \A key \in DOMAIN models'[h].refs :
            /\ ArityHolds(models'[h].refs[key].type, ReadField(WorldAfter, h, key))
            /\ (h \notin Allocated(World) /\ models'[h].refs[key].type = TO_MANY) =>
                 ReadField(WorldAfter, h, key) = ListV(<<>>)
     /\ (/\ last'.op = "assign"
         /\ last'.h \in data
         /\ last'.key \in DOMAIN models[last'.h].refs) =>
          LET h == last'.h
              key == last'.key
              refType == models[h].refs[key].type
          IN IF refType = TO_ONE /\ isArrayLike(last'.arg)
               THEN /\ last'.err = REF_SINGLE
                    /\ models'[h].refs[key] = models[h].refs[key]
             ELSE IF refType = TO_MANY /\ ~isArrayLike(last'.arg) /\ last'.arg # NullV
               THEN /\ last'.err = REF_ARRAY
                    /\ models'[h].refs[key] = models[h].refs[key]
             ELSE /\ last'.err = NoErr
                  /\ SameShape(ReadField(WorldAfter, h, key),
                               IF refType = TO_MANY /\ last'.arg = NullV
                                 THEN ListV(<<>>) ELSE last'.arg)
                  /\ IsEntityValue(last'.arg) =>
                       ReadField(WorldAfter, h, key) = last'.arg]_vars

\* a single entity has been written to a to-many field, which is rejected,
\* while a to-one-or-many field of the entity reads a list
C14_Witness ==
  /\ last.op = "assign"
  /\ last.err = REF_ARRAY
  /\ isModel(last.arg)
  /\ "extra" \in DOMAIN models[last.h].refs
  /\ models[last.h].refs["extra"].type = TO_ONE_OR_MANY
  /\ isArrayLike(ReadField(World, last.h, "extra"))

\* the back-reference fields of the models of a world
BackRefFields(w) ==
  {f \in Handles \X FieldNames :
     /\ f[1] \in Allocated(w)
     /\ f[2] \in DOMAIN w.models[f[1]].meta.fields
     /\ IsBackRef(w.models[f[1]].meta.fields[f[2]])}

\* the entities of the registry, of the target type, whose stored forward
\* reference names the type and id of the registry entity h
Referrers(w, h, key) ==
  LET def == w.models[h].meta.fields[key]
      ref == RefV(w.models[h].meta.type, w.models[h].meta.id)
  IN {g \in w.data :
        /\ h \in w.data
        /\ w.models[g].meta.type = def.model
        /\ def.property \in DOMAIN w.models[g].refs
        /\ \E i \in 1..Len(ItemsOf(w.models[g].refs[def.property].raw)) :
             ItemsOf(w.models[g].refs[def.property].raw)[i] = ref}

\* the entities a list value holds
ModelsIn(value) == {value.items[i].h : i \in 1..Len(value.items)}

\* C15: a back-reference field of E has no storage of its own; after every
\* step it reads, without repetition, exactly the registry entities of the
\* target type whose forward field of the named key holds E; a write of a
\* list L to it changes the forward field of exactly the entities that join
\* or leave that set, and the field then reads the entities of L
C15_BackRefIsComputed ==
  [][/\ \A f \in BackRefFields(WorldAfter) :
          /\ f[2] \notin DOMAIN models'[f[1]].refs
          /\ f[2] \notin DOMAIN models'[f[1]].data
          /\ isArrayLike(ReadField(WorldAfter, f[1], f[2]))
          /\ ModelsIn(ReadField(WorldAfter, f[1], f[2])) = Referrers(WorldAfter, f[1], f[2])
          /\ Len(ReadField(WorldAfter, f[1], f[2]).items) =
               Cardinality(Referrers(WorldAfter, f[1], f[2]))
     /\ last'.op = "writeback" =>
          LET h == last'.h
              key == last'.key
              before == Referrers(World, h, key)
              after == ModelsIn(last'.arg)
          IN /\ last'.err = NoErr
             /\ ModelsIn(ReadField(WorldAfter, h, key)) = after
             /\ models'[h] = models[h]
             /\ \A g \in Allocated(World) :
                  (models'[g].refs # models[g].refs) =
                    (g \in (before \ after) \cup (after \ before))
             /\ \A g \in after \ before : HoldsModel(WorldAfter, g, "event", h)
             /\ \A g \in before \ after : ~HoldsModel(WorldAfter, g, "event", h)]_vars

\* a list of one image has been written to the back-reference of an event
\* that another image held: the written image holds the event, the other one
\* does not
C15_Witness ==
  /\ last.op = "writeback"
  /\ last.err = NoErr
  /\ Len(last.arg.items) = 1
  /\ ReadField(World, last.h, last.key) = last.arg
  /\ HoldsModel(World, last.arg.items[1].h, "event", last.h)
  /\ \E g \in data :
       /\ models[g].meta.type = "image"
       /\ g # last.arg.items[1].h
       /\ ReadField(World, g, "event") = NullV
       /\ steps >= 4

\* C16: when the collection of a model changes (it is removed, or it joins
\* another collection) every bucket of the model points at the new collection
\* in the same step: a reference field reads a model exactly for the
\* identifiers the index of the model's present collection holds, and a model
\* that is in no collection reads no model at all

\* the index of the collection a model is in, read from the state
IndexOf(h) ==
  IF models[h].meta.collection = Registry THEN map
  ELSE IF models[h].meta.collection = OtherRegistry THEN other
  ELSE [t \in Types |-> [i \in AllIds |-> NoHandle]]

\* the item a stored {type, id} reads as against an index
ResolvedIn(index, ref) ==
  IF index[ref.type][ref.id] = NoHandle THEN ref ELSE ModelV(index[ref.type][ref.id])

ResolvedValue(index, raw) ==
  IF isArrayLike(raw)
    THEN ListV([i \in 1..Len(raw.items) |-> ResolvedIn(index, raw.items[i])])
  ELSE IF raw.k = "null" THEN raw
  ELSE ResolvedIn(index, raw)

C16_BucketsFollowTheCollection ==
  \A h \in Allocated(World) : \A key \in DOMAIN models[h].refs :
    /\ models[h].refs[key].collection = models[h].meta.collection
    /\ ReadField(World, h, key) = ResolvedValue(IndexOf(h), models[h].refs[key].raw)
    /\ (models[h].meta.collection = NoCollection =>
          \A i \in 1..Len(ItemsOf(ReadField(World, h, key))) :
            ~isModel(ItemsOf(ReadField(World, h, key))[i]))

\* a model was removed from the first collection and has joined the second:
\* its reference reads a model of the second collection
C16_Witness ==
  /\ last.op = "move"
  /\ last.err = NoErr
  /\ models[last.h].meta.collection = OtherRegistry
  /\ \E key \in DOMAIN models[last.h].refs :
       \E i \in 1..Len(ItemsOf(ReadField(World, last.h, key))) :
         LET item == ItemsOf(ReadField(World, last.h, key))[i]
         IN /\ isModel(item)
            /\ models[item.h].meta.collection = OtherRegistry
            /\ other[models[item.h].meta.type][models[item.h].meta.id] = item.h

\* C17: a value other than null given to a reference field of a model that is
\* in no collection, in the raw data of the constructor or by a later write,
\* fails with NEEDS_COLLECTION, leaves the field as it was and logs no change;
\* null is accepted

IsNullish(value) == value.k \in {"null", "undefined"}

\* the step is a write to a reference field of a model in no collection
DetachedWrite ==
  /\ last'.op = "write"
  /\ last'.h \in Allocated(World)
  /\ models[last'.h].meta.collection = NoCollection
  /\ last'.key \in DOMAIN models[last'.h].refs

\* the step is a construction with a value for the reference field
DetachedConstruct ==
  /\ last'.op = "construct"
  /\ last'.key \in DOMAIN last'.arg.attrs

\* the write or the construction was refused and left no trace
Refused(h) ==
  /\ last'.err = NEEDS_COLLECTION
  /\ \A i \in 1..Len(last'.patches) : last'.key \notin last'.patches[i].keys
  /\ models' = models

C17_DetachedRejectsReference ==
  [][/\ (DetachedWrite =>
           IF IsNullish(last'.arg)
             THEN last'.err = NoErr
             ELSE Refused(last'.h))
      /\ (DetachedConstruct =>
           IF IsNullish(last'.arg.attrs[last'.key])
             THEN last'.err = NoErr
             ELSE Refused(NoHandle))]_vars

\* the same with JavaScript truthiness in the place of "other than null": the
\* identifier 0 is let through like null
C17_DetachedRejectsTruthy ==
  [][/\ (DetachedWrite =>
           IF Truthy(last'.arg)
             THEN Refused(last'.h)
             ELSE /\ last'.err # NEEDS_COLLECTION
                  /\ IsNullish(last'.arg) => last'.err = NoErr)
      /\ (DetachedConstruct =>
           IF Truthy(last'.arg.attrs[last'.key])
             THEN Refused(NoHandle)
             ELSE /\ last'.err # NEEDS_COLLECTION
                  /\ IsNullish(last'.arg.attrs[last'.key]) => last'.err = NoErr)]_vars

\* the identifier 0 was written to the reference field of a model that is in
\* no collection: the write succeeded, the change was logged and the field
\* holds a placeholder for the identifier
C17_Witness ==
  /\ last.op = "write"
  /\ last.arg = IdV(0)
  /\ last.err = NoErr
  /\ models[last.h].meta.collection = NoCollection
  /\ last.patches # <<>>
  /\ ReadField(World, last.h, last.key).k = "ref"
  /\ ReadField(World, last.h, last.key).id = 0

\* the step is a call under the given strategy
Fetched(strategy) ==
  /\ steps' = steps + 1
  /\ last'.op = "fetch"
  /\ fetched'.strategy = strategy

\* C18: under cache-first a call for a request whose entry is fresh issues no
\* network request and its response has the snapshot of the call that went
\* before it for the same request; without an entry the call issues a request
C18_CacheFirstServesTheCache ==
  [][Fetched(CACHE_FIRST) =>
       LET entry == cache[fetched'.url]
       IN /\ (entry # NoEntry /\ entry.fresh =>
                /\ net' = net
                /\ fetched'.err = NoErr
                /\ fetched'.snapshot = entry.payload
                /\ (fetched.url = fetched'.url /\ fetched.err = NoErr =>
                      fetched'.snapshot = fetched.snapshot))
          /\ (entry = NoEntry => net' = net + 1)]_vars

\* the second of two calls for the same request: the first one took its
\* response from the network, the server has another payload by now, and the
\* second call is served the first snapshot without a request
C18_Witness ==
  /\ last.op = "fetch"
  /\ fetched.strategy = CACHE_FIRST
  /\ fetched.entry # NoEntry
  /\ fetched.entry.fresh
  /\ ~fetched.requested
  /\ net = 1
  /\ steps = 2
  /\ fetched.offered # fetched.snapshot
  /\ fetched.snapshot = fetched.entry.payload

\* C19: under network-only every call issues a network request, whatever the
\* entry of the request is, and a call whose request does not reach the server
\* fails with NETWORK_NOT_AVAILABLE even when the request has an entry
C19_NetworkOnlyIgnoresTheCache ==
  [][Fetched(NETWORK_ONLY) =>
       /\ net' = net + 1
       /\ fetched'.requested
       /\ (fetched'.outcome = NetworkDown =>
             /\ fetched'.err = NETWORK_NOT_AVAILABLE
             /\ last'.err = NETWORK_NOT_AVAILABLE)
       /\ (fetched'.outcome = NetworkOK =>
             /\ fetched'.err = NoErr
             /\ fetched'.snapshot = fetched'.offered)]_vars

\* a network-only call failed while the request had an entry
C19_Witness ==
  /\ last.op = "fetch"
  /\ fetched.strategy = NETWORK_ONLY
  /\ fetched.entry # NoEntry
  /\ fetched.outcome = NetworkDown
  /\ fetched.requested
  /\ last.err = NETWORK_NOT_AVAILABLE

\* C20: under network-first every call issues a network request; the response
\* has the payload of the server when the request succeeds, the payload of
\* the entry when the request fails and the request has an entry, and the
\* call fails with NETWORK_NOT_AVAILABLE when it fails and has none
C20_NetworkFirstFallsBack ==
  [][Fetched(NETWORK_FIRST) =>
       LET entry == cache[fetched'.url]
       IN /\ net' = net + 1
          /\ (fetched'.outcome = NetworkOK =>
                /\ fetched'.err = NoErr
                /\ fetched'.snapshot = fetched'.offered)
          /\ (fetched'.outcome = NetworkDown /\ entry # NoEntry =>
                /\ fetched'.err = NoErr
                /\ last'.err = NoErr
                /\ fetched'.snapshot = entry.payload)
          /\ (fetched'.outcome = NetworkDown /\ entry = NoEntry =>
                /\ fetched'.err = NETWORK_NOT_AVAILABLE
                /\ last'.err = NETWORK_NOT_AVAILABLE)]_vars

\* a network-first call whose request failed was served the entry
C20_Witness ==
  /\ last.op = "fetch"
  /\ fetched.strategy = NETWORK_FIRST
  /\ fetched.outcome = NetworkDown
  /\ fetched.requested
  /\ fetched.entry # NoEntry
  /\ last.err = NoErr
  /\ fetched.snapshot = fetched.entry.payload

\* C21: a cache-only call never issues a network request, in front or behind:
\* without an entry it fails with NO_CACHE, with an entry its response has the
\* payload of the entry whatever the age of the entry is, and the cache is
\* left as it was, so that the next call finds the same
C21_CacheOnlyNeverAsksTheNetwork ==
  [][Fetched(CACHE_ONLY) =>
       LET entry == cache[fetched'.url]
       IN /\ net' = net
          /\ ~fetched'.requested
          /\ ~fetched'.background
          /\ pending' = pending
          /\ cache' = cache
          /\ (entry = NoEntry =>
                /\ fetched'.err = NO_CACHE
                /\ last'.err = NO_CACHE)
          /\ (entry # NoEntry =>
                /\ fetched'.err = NoErr
                /\ last'.err = NoErr
                /\ fetched'.snapshot = entry.payload)]_vars

\* a cache-only call is served an entry older than the maximal age, after a
\* single request filled the cache and two more calls followed the expiry
C21_Witness ==
  /\ last.op = "fetch"
  /\ fetched.strategy = CACHE_ONLY
  /\ fetched.entry # NoEntry
  /\ ~fetched.entry.fresh
  /\ fetched.err = NoErr
  /\ fetched.snapshot = fetched.entry.payload
  /\ net = 1
  /\ steps = 4

\* the step is the return of a request in flight of the given strategy
Completed(strategy) ==
  /\ steps' = steps + 1
  /\ last'.op = "complete"
  /\ last'.key = strategy

\* C22: under stale-while-revalidate a call whose request has a stale entry
\* returns the payload of the entry without waiting for the network and
\* leaves exactly one request in flight; when that request succeeds its
\* payload replaces the entry, and the call that comes next for the request
\* returns it; a call whose request has no entry waits for the network
C22_StaleWhileRevalidate ==
  /\ [][Fetched(STALE_WHILE_REVALIDATE) =>
          LET entry == cache[fetched'.url]
          IN /\ (entry # NoEntry /\ ~entry.fresh =>
                   /\ ~fetched'.requested
                   /\ fetched'.err = NoErr
                   /\ fetched'.snapshot = entry.payload
                   /\ cache' = cache
                   /\ net' = net + 1
                   /\ Len(pending') = Len(pending) + 1
                   /\ pending'[Len(pending')].url = fetched'.url)
             /\ (entry = NoEntry =>
                   /\ fetched'.requested
                   /\ net' = net + 1
                   /\ Len(pending') = Len(pending)
                   /\ (fetched'.outcome = NetworkOK =>
                         fetched'.snapshot = fetched'.offered)
                   /\ (fetched'.outcome = NetworkDown =>
                         fetched'.err = NETWORK_NOT_AVAILABLE))
             /\ (last.op = "complete" /\ last.arg.ok
                   /\ last.arg.url = fetched'.url =>
                   fetched'.snapshot = last.arg.payload)]_vars
  /\ [][Completed(STALE_WHILE_REVALIDATE) =>
          /\ net' = net
          /\ Len(pending') = Len(pending) - 1
          /\ (last'.arg.ok =>
                cache'[last'.arg.url] = CacheEntry(last'.arg.payload))
          /\ (~last'.arg.ok => cache' = cache)]_vars

\* the request behind a stale-while-revalidate call that was served a stale
\* entry came back with another payload, which is the entry now
C22_Witness ==
  /\ last.op = "complete"
  /\ last.key = STALE_WHILE_REVALIDATE
  /\ last.arg.ok
  /\ fetched.strategy = STALE_WHILE_REVALIDATE
  /\ fetched.url = last.arg.url
  /\ fetched.entry # NoEntry
  /\ ~fetched.entry.fresh
  /\ fetched.background
  /\ ~fetched.requested
  /\ fetched.snapshot # last.arg.payload
  /\ cache[fetched.url].payload = last.arg.payload
  /\ net = 2

FetchedFresh ==
  /\ \E strategy \in Revalidating : Fetched(strategy)
  /\ cache[fetched'.url] # NoEntry
  /\ cache[fetched'.url].fresh

\* C24 as the specification states it: under the revalidating strategies a
\* call whose request has a fresh entry returns the payload of the entry and
\* issues no network request at all
C24_FreshEntryIssuesNoRequest ==
  [][FetchedFresh =>
       /\ fetched'.err = NoErr
       /\ fetched'.snapshot = cache[fetched'.url].payload
       /\ net' = net
       /\ pending' = pending]_vars

\* C24 as the program behaves: under the revalidating strategies a call whose
\* request has a fresh entry returns the payload of the entry without waiting
\* for the network, and it issues one request behind the response, as it
\* does for a stale entry
C24_FreshEntryIsRevalidated ==
  [][FetchedFresh =>
       /\ fetched'.err = NoErr
       /\ fetched'.snapshot = cache[fetched'.url].payload
       /\ ~fetched'.requested
       /\ cache' = cache
       /\ net' = net + 1
       /\ fetched'.background
       /\ pending' = Append(pending, [url |-> fetched'.url,
                                      strategy |-> fetched'.strategy])]_vars

\* the second of two stale-while-revalidate calls: the first one filled the
\* cache a moment ago, the second one is served that entry and asks again
C24_Witness ==
  /\ last.op = "fetch"
  /\ fetched.strategy = STALE_WHILE_REVALIDATE
  /\ fetched.entry # NoEntry
  /\ fetched.entry.fresh
  /\ fetched.snapshot = fetched.entry.payload
  /\ fetched.background
  /\ steps = 2
  /\ net = 2

\* the step is a cache-first call whose request has an entry older than the
\* maximal age
FetchedStale ==
  /\ Fetched(CACHE_FIRST)
  /\ cache[fetched'.url] # NoEntry
  /\ ~cache[fetched'.url].fresh

\* C25 as the specification states it: under cache-first a call whose request
\* has a stale entry returns the payload of the entry and issues no network
\* request
C25_StaleEntryIsServed ==
  [][FetchedStale =>
       /\ fetched'.err = NoErr
       /\ fetched'.snapshot = cache[fetched'.url].payload
       /\ net' = net]_vars

\* C25 as the program behaves: under cache-first a stale entry counts for
\* none; the call issues a network request, its response has the payload of
\* the server, which becomes the entry, and when the request does not reach
\* the server the call fails with NETWORK_NOT_AVAILABLE and the entry stays
C25_StaleEntryGoesToTheNetwork ==
  [][FetchedStale =>
       /\ fetched'.requested
       /\ net' = net + 1
       /\ pending' = pending
       /\ (fetched'.outcome = NetworkOK =>
             /\ fetched'.err = NoErr
             /\ fetched'.snapshot = fetched'.offered
             /\ cache'[fetched'.url] = CacheEntry(fetched'.offered))
       /\ (fetched'.outcome = NetworkDown =>
             /\ fetched'.err = NETWORK_NOT_AVAILABLE
             /\ cache' = cache)]_vars

\* a cache-first call without a maxAge of its own found a stale entry and
\* returned the other payload, which the server had by then
C25_Witness ==
  /\ last.op = "fetch"
  /\ fetched.strategy = CACHE_FIRST
  /\ ~fetched.maxAge0
  /\ fetched.entry # NoEntry
  /\ ~fetched.entry.fresh
  /\ fetched.requested
  /\ fetched.outcome = NetworkOK
  /\ fetched.snapshot # fetched.entry.payload
  /\ cache[fetched.url].fresh

\* C26: a call with a maxAge of 0 treats the entry of its request as stale
\* however young it is: under cache-first it issues a network request, its
\* response has the payload of the server, and when the request does not
\* reach the server the call fails with NETWORK_NOT_AVAILABLE
C26_MaxAgeZero ==
  [][Fetched(CACHE_FIRST) /\ fetched'.maxAge0 =>
       /\ fetched'.requested
       /\ net' = net + 1
       /\ (fetched'.outcome = NetworkOK =>
             /\ fetched'.err = NoErr
             /\ fetched'.snapshot = fetched'.offered)
       /\ (fetched'.outcome = NetworkDown =>
             /\ fetched'.err = NETWORK_NOT_AVAILABLE
             /\ last'.err = NETWORK_NOT_AVAILABLE
             /\ cache' = cache)]_vars

\* a call with a maxAge of 0 failed while its request had a fresh entry, which
\* a call without the option had been served before
C26_Witness ==
  /\ last.op = "fetch"
  /\ fetched.strategy = CACHE_FIRST
  /\ fetched.maxAge0
  /\ fetched.entry # NoEntry
  /\ fetched.entry.fresh
  /\ fetched.outcome = NetworkDown
  /\ last.err = NETWORK_NOT_AVAILABLE
  /\ net = 2
  /\ steps = 3

\* C27: the strategy of a call is its cachingStrategy option or else the
\* configured one; a call whose strategy is none of the six fails with
\* INVALID_CACHING_STRATEGY, issues no request in front or behind and leaves
\* the cache and the collection as they were, whether or not its request has
\* an entry; configuring such a strategy raises no error by itself
C27_InvalidStrategyFailsTheCall ==
  /\ [][steps' = steps + 1 /\ last'.op = "fetch" =>
          /\ fetched'.strategy = IF fetched'.option # NoOption
                                   THEN fetched'.option ELSE config
          /\ (fetched'.strategy \notin AllStrategies =>
                /\ fetched'.err = INVALID_CACHING_STRATEGY
                /\ last'.err = INVALID_CACHING_STRATEGY
                /\ ~fetched'.requested
                /\ fetched'.snapshot = NullV
                /\ net' = net
                /\ pending' = pending
                /\ cache' = cache
                /\ data' = data
                /\ models' = models)
          /\ (fetched'.strategy \in AllStrategies =>
                fetched'.err # INVALID_CACHING_STRATEGY)]_vars
  /\ [][steps' = steps + 1 /\ last'.op = "configure" =>
          /\ last'.err = NoErr
          /\ config' # config
          /\ fetched' = fetched
          /\ cache' = cache]_vars

\* a call without the option failed for the configured strategy, which names
\* none; its request has an entry from a call that went before the strategy
\* was configured
C27_Witness ==
  /\ last.op = "fetch"
  /\ config = INVALID_STRATEGY
  /\ fetched.option = NoOption
  /\ fetched.strategy = INVALID_STRATEGY
  /\ last.err = INVALID_CACHING_STRATEGY
  /\ cache[fetched.url] # NoEntry
  /\ net = 1
  /\ steps = 3

C29_ServerErrorsArePropagated ==
  [][steps' = steps + 1 /\ last'.op = "fetch" /\ fetched'.requested
       /\ fetched'.outcome = NetworkError =>
       /\ fetched'.err = SERVER_ERROR
       /\ last'.err = SERVER_ERROR
       /\ fetched'.snapshot = NullV
       /\ fetched'.seen = <<>>
       /\ data' = data]_vars

\* a network-first call failed with the error of the server while its
\* request had a fresh entry
C29_Witness ==
  /\ last.op = "fetch"
  /\ fetched.strategy = NETWORK_FIRST
  /\ fetched.outcome = NetworkError
  /\ fetched.entry # NoEntry
  /\ fetched.entry.fresh
  /\ last.err = SERVER_ERROR
  /\ cache[fetched.url] = fetched.entry

\* the last step emptied the cache of the requests of the given type
PurgedFor(type) ==
  \/ last.op = "reset"
  \/ last.op = "removeAll" /\ last.key = type

\* C30: reset() drops every cache entry and removeAll(type) drops the
\* entries of the requests of that type and no other; the cache-first call
\* that comes next for such a request issues a network request, whatever the
\* cache held for it before
C30_PurgeEmptiesTheCache ==
  /\ [][steps' = steps + 1 /\ last'.op = "reset" =>
          /\ \A url \in Fingerprints : cache'[url] = NoEntry
          /\ data' = {}]_vars
  /\ [][steps' = steps + 1 /\ last'.op = "removeAll" =>
          /\ \A url \in Fingerprints :
               cache'[url] = IF url[1] = last'.key THEN NoEntry ELSE cache[url]
          /\ \A h \in data' : models'[h].meta.type # last'.key]_vars
  /\ [][Fetched(CACHE_FIRST) /\ PurgedFor(fetched'.url[1]) =>
          /\ fetched'.entry = NoEntry
          /\ fetched'.requested
          /\ net' = net + 1]_vars

\* a cache-first call issued the second request for a url: the first call
\* had cached its response, and removeAll came between the two
C30_Witness ==
  /\ last.op = "fetch"
  /\ fetched.strategy = CACHE_FIRST
  /\ fetched.before.op = "removeAll"
  /\ fetched.before.url = fetched.url
  /\ fetched.before.err = NoErr
  /\ fetched.entry = NoEntry
  /\ fetched.requested
  /\ net = 2
  /\ steps = 3

\* C31: two calls for the same url that overlap each issue a request of their
\* own, and each successful answer replaces the entry of the url, so that
\* after both answers the one entry of the url holds the payload of the
\* answer that came last, whichever of the two requests it answers
C31_OverlappingFetches ==
  /\ [][steps' = steps + 1 /\ last'.op = "request" =>
          /\ net' = net + 1
          /\ Len(pending') = Len(pending) + 1
          /\ pending'[Len(pending')].url = <<last'.arg.type, last'.arg.id>>
          /\ cache' = cache]_vars
  /\ [][steps' = steps + 1 /\ last'.op = "complete" =>
          /\ net' = net
          /\ Len(pending') = Len(pending) - 1
          /\ \A url \in Fingerprints :
               cache'[url] = IF last'.arg.ok /\ url = last'.arg.url
                               THEN CacheEntry(last'.arg.payload)
                               ELSE cache[url]]_vars
  /\ [](last.op = "complete" /\ last.arg.ok =>
          cache[last.arg.url].payload = last.arg.payload)

\* two requests for one url were in flight together; the second was answered
\* first, the first was answered last with another payload, which is the
\* entry now
C31_Witness ==
  /\ last.op = "complete"
  /\ last.arg.ok
  /\ last.arg.before.ok
  /\ last.arg.before.url = last.arg.url
  /\ last.arg.before.index = 2
  /\ last.arg.before.payload # last.arg.payload
  /\ pending = <<>>
  /\ net = 2
  /\ steps = 4
  /\ cache[last.arg.url] = CacheEntry(last.arg.payload)

\* the step is a call through the second collection
FetchedOther ==
  /\ steps' = steps + 1
  /\ last'.op = "fetchother"

\* C32 as the specification states it: a response cached by a call through
\* one collection is never served to a call through another: the call through the second collection for a
\* url whose entry was made for the first issues a network request under
\* cache-first and fails with NO_CACHE under cache-only
C32_EntriesAreScoped ==
  [][FetchedOther /\ cache[fetched'.url] # NoEntry
       /\ cache[fetched'.url].owner = Registry =>
       /\ (fetched'.strategy = CACHE_FIRST =>
             /\ fetched'.requested
             /\ net' = net + 1)
       /\ (fetched'.strategy = CACHE_ONLY =>
             /\ fetched'.err = NO_CACHE
             /\ last'.err = NO_CACHE)]_vars

\* C32 as the program behaves: the cache is asked by url alone; a call
\* through the second collection for a url whose fresh entry was made for the
\* first is served that entry under cache-first and under cache-only, without
\* a request, and neither the cache nor the second collection changes; only
\* a url without any entry makes the call issue a request under cache-first
\* and fail with NO_CACHE under cache-only
C32_EntriesAreShared ==
  [][FetchedOther =>
       LET entry == cache[fetched'.url]
       IN /\ (entry # NoEntry /\ entry.owner = Registry /\ entry.fresh =>
                /\ ~fetched'.requested
                /\ net' = net
                /\ fetched'.err = NoErr
                /\ fetched'.snapshot = entry.payload
                /\ cache' = cache
                /\ other' = other)
          /\ (entry = NoEntry /\ fetched'.strategy = CACHE_FIRST =>
                /\ fetched'.requested
                /\ net' = net + 1)
          /\ (entry = NoEntry /\ fetched'.strategy = CACHE_ONLY =>
                fetched'.err = NO_CACHE)]_vars

\* a cache-first call through the second collection was served, without a
\* request, the response a call through the first collection had cached,
\* while the second collection holds no model of the url
C32_Witness ==
  /\ last.op = "fetchother"
  /\ fetched.strategy = CACHE_FIRST
  /\ fetched.entry # NoEntry
  /\ fetched.entry.owner = Registry
  /\ ~fetched.requested
  /\ fetched.err = NoErr
  /\ fetched.snapshot = fetched.entry.payload
  /\ other[fetched.url[1]][fetched.url[2]] = NoHandle
  /\ net = 1

\* C33: when the request behind a stale-while-revalidate response does not
\* reach the server, nothing of it reaches the caller: the call had returned
\* the payload of the entry without an error, the failure raises no error,
\* and the response, the cache and the collection stay as they were, so that
\* the call that comes next for the url returns the same payload
C33_BackgroundFailureIsDropped ==
  /\ [][Fetched(STALE_WHILE_REVALIDATE) /\ cache[fetched'.url] # NoEntry =>
          /\ fetched'.err = NoErr
          /\ last'.err = NoErr
          /\ fetched'.snapshot = cache[fetched'.url].payload
          /\ (last.op = "complete" /\ ~last.arg.ok /\ last.arg.behind
                /\ fetched.url = fetched'.url =>
                fetched'.snapshot = fetched.snapshot)]_vars
  /\ [][Completed(STALE_WHILE_REVALIDATE) /\ ~last'.arg.ok =>
          /\ last'.err = NoErr
          /\ cache' = cache
          /\ data' = data
          /\ models' = models
          /\ fetched'.err = fetched.err
          /\ fetched'.snapshot = fetched.snapshot
          /\ fetched'.seen = fetched.seen]_vars

\* the request behind a stale-while-revalidate response failed: the response
\* still has the payload of the entry, which is in the cache as before
C33_Witness ==
  /\ last.op = "complete"
  /\ last.key = STALE_WHILE_REVALIDATE
  /\ ~last.arg.ok
  /\ last.arg.behind
  /\ last.err = NoErr
  /\ fetched.strategy = STALE_WHILE_REVALIDATE
  /\ fetched.background
  /\ fetched.err = NoErr
  /\ fetched.seen = <<fetched.entry.payload>>
  /\ cache[fetched.url] = fetched.entry
  /\ net = 2

\* the attribute of the model of a url, as the collection has it after the step
AttributeAfter(url) ==
  ReadStored(WorldAfter, map'[url[1]][url[2]], PlainKey(url[1]))

\* C34: the cache keeps the payload that was fetched, apart from the models:
\* a write to the attribute of a model changes the model and leaves the cache,
\* the request counter and the record of the last call as they were, and the
\* call that is served the entry of the url afterwards returns the payload
\* that was fetched, with which the model of the response reads the fetched
\* value again and not the written one
C34_CacheKeepsTheFetchedPayload ==
  /\ [][steps' = steps + 1 /\ last'.op = "modify" =>
          /\ ReadStored(WorldAfter, last'.h, last'.key) = Modified
          /\ cache' = cache
          /\ net' = net
          /\ fetched' = fetched]_vars
  /\ [][Fetched(CACHE_FIRST) /\ isCached(cache[fetched'.url]) =>
          LET entry == cache[fetched'.url]
          IN /\ ~fetched'.requested
             /\ fetched'.snapshot = entry.payload
             /\ entry.payload \in Payloads(fetched'.url)
             /\ cache' = cache
             /\ map'[fetched'.url[1]][fetched'.url[2]] \in data'
             /\ AttributeAfter(fetched'.url) =
                  entry.payload.data[1].attrs[PlainKey(fetched'.url[1])]
             /\ AttributeAfter(fetched'.url) # Modified]_vars

\* a cache-first call right after a write to the attribute of the model it
\* asks for: it is served the entry, and the model reads the fetched value
C34_Witness ==
  /\ last.op = "fetch"
  /\ fetched.strategy = CACHE_FIRST
  /\ fetched.before.op = "modify"
  /\ fetched.before.url = fetched.url
  /\ ~fetched.requested
  /\ fetched.snapshot = fetched.entry.payload
  /\ ReadStored(World, map[fetched.url[1]][fetched.url[2]],
                PlainKey(fetched.url[1]))
       = fetched.snapshot.data[1].attrs[PlainKey(fetched.url[1])]
  /\ net = 1
  /\ steps = 3

\* the step is a sync of one record
Synced ==
  /\ steps' = steps + 1
  /\ last'.op = "sync"

\* C35: the collection never holds two models of one type and id; a sync of
\* a record whose type and id a model of the collection has succeeds, leaves
\* the set of models as it was and merges the attributes of the record into
\* that very model, and a sync of a record whose type and id no model has
\* adds exactly one model, which find returns for them
C35_OneEntityPerIdentity ==
  /\ [](\A h \in data : \A g \in data :
          (models[h].meta.type = models[g].meta.type
             /\ models[h].meta.id = models[g].meta.id) => h = g)
  /\ [][Synced =>
          LET type == last'.arg.type
              id == last'.arg.id
              h == findOne(World, type, id)
          IN /\ last'.err = NoErr
             /\ (h # NoHandle =>
                   /\ data' = data
                   /\ findOne(WorldAfter, type, id) = h
                   /\ last'.ret = ListV(<<ModelV(h)>>) \/ last'.ret = ModelV(h)
                   /\ ObservedState(WorldAfter, h) =
                        [ObservedState(World, h) EXCEPT ![PlainKey(type)] = PlainV("b")])
             /\ (h = NoHandle =>
                   /\ Cardinality(data') = Cardinality(data) + 1
                   /\ data \subseteq data'
                   /\ findOne(WorldAfter, type, id) \in data' \ data)]_vars

\* a sync met the model an add had made: the collection has that one model
\* still, and it reads the attribute of the record
C35_Witness ==
  /\ last.op = "sync"
  /\ last.err = NoErr
  /\ steps = 2
  /\ Cardinality(data) = 1
  /\ \E h \in data :
       /\ models[h].meta.id = last.arg.id
       /\ last.patches # <<>>
       /\ ReadStored(World, h, PlainKey(last.arg.type)) = PlainV("b")

\* the step is a sync of a body whose first record has a relationship
SyncedLinked ==
  /\ steps' = steps + 1
  /\ last'.op = "synclinked"

\* what a field reads when its relationship has resolved to the model t
Resolved(items, t) ==
  IF isArrayLike(items) THEN ListV(<<ModelV(t)>>) ELSE ModelV(t)

\* C36: a sync of a body in which a record has a relationship to another
\* record of the body succeeds, and afterwards the field of the relationship
\* reads the model of that record (or a list of it), whether the record came
\* before or after, in the included records or the data records
C36_RelationshipsResolveInAnyOrder ==
  [][SyncedLinked /\ last'.arg.items \notin NoLinkData =>
       LET b == last'.arg
           s == findOne(WorldAfter, b.source.type, b.source.id)
           t == findOne(WorldAfter, b.target.type, b.target.id)
       IN /\ last'.err = NoErr
          /\ s \in data'
          /\ t \in data'
          /\ ReadField(WorldAfter, s, last'.key) = Resolved(b.items, t)]_vars

\* a sync made both records of its body, the record with the relationship
\* first and its target after it, and the field reads the model of the target
C36_Witness ==
  /\ last.op = "synclinked"
  /\ last.err = NoErr
  /\ steps = 1
  /\ last.arg.items \notin NoLinkData
  /\ last.arg.body.data[1].id = last.arg.source.id
  /\ last.arg.body.data[1].type = last.arg.source.type
  /\ Len(last.arg.body.data) = 2
  /\ Cardinality(data) = 2
  /\ LET s == findOne(World, last.arg.source.type, last.arg.source.id)
         t == findOne(World, last.arg.target.type, last.arg.target.id)
     IN ReadField(World, s, last.key) = Resolved(last.arg.items, t)

\* C37: a sync of a record whose relationship is an empty list or null, onto
\* a model the collection has, succeeds and leaves the field of that name as
\* it was: it reads what it read before the sync, its bucket is the one it
\* was, and no entry of the change log names the field
C37_EmptyRelationshipKeepsTheField ==
  [][SyncedLinked /\ last'.arg.items \in NoLinkData
       /\ findOne(World, last'.arg.source.type, last'.arg.source.id) # NoHandle =>
       LET s == findOne(World, last'.arg.source.type, last'.arg.source.id)
           key == last'.key
       IN /\ last'.err = NoErr
          /\ findOne(WorldAfter, last'.arg.source.type, last'.arg.source.id) = s
          /\ ReadField(WorldAfter, s, key) = ReadField(World, s, key)
          /\ (key \in DOMAIN models[s].refs =>
                /\ key \in DOMAIN models'[s].refs
                /\ models'[s].refs[key] = models[s].refs[key])
          /\ \A i \in 1..Len(last'.patches) :
               key \notin last'.patches[i].keys]_vars

\* a sync with an empty list met a model whose field read a list of one
\* model, from an earlier sync, and the field reads that list still
C37_Witness ==
  /\ last.op = "synclinked"
  /\ last.err = NoErr
  /\ last.arg.items = ListV(<<>>)
  /\ steps = 2
  /\ \E s \in data : \E t \in data :
       /\ models[s].meta.type = last.arg.source.type
       /\ models[s].meta.id = last.arg.source.id
       /\ ReadField(World, s, last.key) = ListV(<<ModelV(t)>>)

\* the step is a write of an object to a reference field, which has failed
\* with the error of the collection's add
WriteInlineFailed ==
  /\ steps' = steps + 1
  /\ last'.op = "writeinline"
  /\ last'.err = MODEL_EXISTS

\* C38: a write to a reference field whose resolution fails (the object
\* written has the type and id of a model of the collection, so the add
\* raises) leaves the model as it was: the field reads what it read, its
\* bucket is unchanged, and the change log has no entry for the field
C38_FailedWriteLeavesNoTrace ==
  [][WriteInlineFailed =>
       /\ ReadField(WorldAfter, last'.h, last'.key) = ReadField(World, last'.h, last'.key)
       /\ models'[last'.h].refs = models[last'.h].refs
       /\ \A i \in 1..Len(last'.patches) :
            ~(last'.patches[i].model = last'.h /\ last'.key \in last'.patches[i].keys)]_vars

\* what the setter does: the field reads what it read and its bucket is
\* unchanged, and the change log has one entry, which names the field
C38_FailedWriteIsLogged ==
  [][WriteInlineFailed =>
       /\ ReadField(WorldAfter, last'.h, last'.key) = ReadField(World, last'.h, last'.key)
       /\ models'[last'.h].refs = models[last'.h].refs
       /\ data' = data
       /\ Len(last'.patches) = 1
       /\ last'.patches[1].model = last'.h
       /\ last'.patches[1].keys = {last'.key}]_vars

\* a write has failed with the error of the add, and the change log names
\* the field of the model
C38_Witness ==
  /\ last.op = "writeinline"
  /\ last.err = MODEL_EXISTS
  /\ last.patches # <<>>
  /\ last.key \in last.patches[1].keys

\* the step is an update of two keys that has failed
UpdateFailed ==
  /\ steps' = steps + 1
  /\ last'.op = "updatetwo"
  /\ last'.err # NoErr

\* the step is a single write that changes the plain field of a model
Wrote ==
  /\ steps' = steps + 1
  /\ last'.op = "modify"
  /\ last'.err = NoErr
  /\ ReadStored(World, last'.h, last'.key) # Modified

\* C39: an update that fails at one of its fields leaves the model as it was
\* (no field assigned before the failure remains) and leaves no action open
\* on it, so a later single write that changes a field has its own entry in
\* the change log
C39_FailedUpdateLeavesNoTrace ==
  /\ [][UpdateFailed =>
          /\ ObservedState(WorldAfter, last'.h) = ObservedState(World, last'.h)
          /\ models'[last'.h].meta.patch.count = 0]_vars
  /\ [][Wrote =>
          \E i \in 1..Len(last'.patches) :
            /\ last'.patches[i].model = last'.h
            /\ last'.key \in last'.patches[i].keys]_vars

\* what updateModel does: the failure is that of the second key, the first
\* key stays assigned, one more action is open on the model and the change
\* log has no entry; a single write on a model with an open action has no
\* entry in the change log either
C39_FailedUpdateStaysOpen ==
  /\ [][UpdateFailed =>
          /\ last'.err = NO_REFS
          /\ IF last'.key = "extra"
               THEN models'[last'.h].data["extra"] = PlainV("b")
               ELSE models'[last'.h].refs[last'.key].raw =
                      mapItems(last'.arg.attrs[last'.key],
                               LAMBDA item :
                                 RefV(ClassFields(models[last'.h].class)[last'.key].model,
                                      item.id))
          /\ models'[last'.h].meta.patch.count = models[last'.h].meta.patch.count + 1
          /\ last'.patches = <<>>]_vars
  /\ [][Wrote /\ models[last'.h].meta.patch.count > 0 => last'.patches = <<>>]_vars
  /\ [][Wrote /\ models[last'.h].meta.patch.count = 0 => Len(last'.patches) = 1]_vars

\* a single write has changed the plain field of a model on which a failed
\* update has left an action open: the change log has no entry for it
C39_Witness ==
  /\ last.op = "modify"
  /\ last.err = NoErr
  /\ last.patches = <<>>
  /\ models[last.h].meta.patch.count > 0
  /\ "extra" \in DOMAIN models[last.h].data
  /\ ReadStored(World, last.h, last.key) = Modified

\* the classification of a schema entry: reference or plain, the arity and
\* the target types of a reference
TargetTypes(def) ==
  IF "models" \in DOMAIN def THEN def.models ELSE {def.model}

Classified(def) ==
  IF def.referenceDef
    THEN [reference |-> TRUE, arity |-> def.type, targets |-> TargetTypes(def)]
    ELSE [reference |-> FALSE, arity |-> "", targets |-> {}]

\* the values that make a reference field of a name that is not in the
\* schema: a model, a list that starts with a model, a {type, id}, and a
\* list that is not empty and starts with a {type, id}
MakesReference(value) ==
  \/ value.k \in {"model", "ref"}
  \/ /\ isArrayLike(value)
     /\ Len(value.items) > 0
     /\ value.items[1].k \in {"model", "ref"}

\* the step has given the model h a field that was not in its schema: at its
\* construction, or by a later assignment
FirstValue_construction ==
  /\ steps' = steps + 1
  /\ last'.op = "addextra"
  /\ last'.err = NoErr
  /\ last'.arg # UndefV

FirstValue_assignment ==
  /\ steps' = steps + 1
  /\ last'.op = "assignextra"
  /\ last'.err = NoErr

\* C40: a name that is not in the schema is classified the same way at
\* construction and by a later assignment: the values that make a reference
\* make it a to-one-or-many reference field in both, the schema entry of the
\* assignment is classified as the construction classifies the value, and
\* every other value makes a plain field in both
C40_SameClassificationOnBothPaths ==
  /\ [][FirstValue_construction =>
          LET def == models'[last'.ret.h].meta.fields["extra"]
          IN /\ def.referenceDef = MakesReference(last'.arg)
             /\ def.referenceDef => def.type = TO_ONE_OR_MANY]_vars
  /\ [][FirstValue_assignment =>
          LET def == models'[last'.h].meta.fields["extra"]
          IN /\ def.referenceDef = MakesReference(last'.arg)
             /\ Classified(def) = Classified(NewFieldDef(World, last'.arg))]_vars

\* what the two paths agree on: a model makes a to-one-or-many reference
\* field whose target type is the type of the model, and a string, null and
\* a list of strings make a plain field
C40_PathsAgreeOnModelsAndPlainValues ==
  /\ [][(FirstValue_construction \/ FirstValue_assignment) /\ isModel(last'.arg) =>
          LET h == IF last'.op = "addextra" THEN last'.ret.h ELSE last'.h
          IN Classified(models'[h].meta.fields["extra"]) =
               [reference |-> TRUE, arity |-> TO_ONE_OR_MANY,
                targets |-> {models[last'.arg.h].meta.type}]]_vars
  /\ [][(FirstValue_construction \/ FirstValue_assignment)
          /\ last'.arg \in {PlainV("b"), NullV, ListV(<<PlainV("b")>>)} =>
          LET h == IF last'.op = "addextra" THEN last'.ret.h ELSE last'.h
          IN ~models'[h].meta.fields["extra"].referenceDef]_vars
  /\ [][FirstValue_assignment =>
          models'[last'.h].meta.fields["extra"].referenceDef
            = (isModel(last'.arg)
               \/ (isArrayLike(last'.arg) /\ Len(last'.arg.items) > 0
                   /\ isModel(last'.arg.items[1])))]_vars

\* an assignment has given a model a {type, id} as the first value of a new
\* field: the field is a plain field, and a construction with the same value
\* makes a reference field
C40_Witness ==
  /\ last.op = "assignextra"
  /\ last.err = NoErr
  /\ last.arg.k = "ref"
  /\ ~models[last.h].meta.fields["extra"].referenceDef
  /\ NewFieldDef(World, last.arg).referenceDef

====
